---------------------------- MODULE Spec2Model ----------------------------
(***************************************************************************)
(* A model of the INF scraper: the table scraper (src/scraper.py), the     *)
(* session validator, the session store and the login (src/auth.py), the   *)
(* run log with its same-day duplicate filter and the chat post            *)
(* (src/notifications.py), the database upload (src/database.py) and the   *)
(* run as a whole (main of src/inf.py).                                    *)
(*                                                                         *)
(* Each subsystem has its own specification (SpecScrape, ...); the         *)
(* variables of the other subsystems keep their initial value there.       *)
(*                                                                         *)
(* The browser engine is the environment.  Every awaited browser call ends *)
(* in one of three ways: "ok", "timeout" (playwright's TimeoutError) or    *)
(* "error" (any other Exception).  ctx.close() is taken to succeed.        *)
(***************************************************************************)
EXTENDS Naturals, Sequences, FiniteSets

(***************************************************************************)
(* Bounds of the model.                                                    *)
(***************************************************************************)
MaxRows == 3        \* rows a rendered table holds at most
MaxRenders == 2     \* asynchronous re-renders of the table in one scrape
MaxPolls == 2       \* evaluations of the wait_for_function predicate that
                    \* fit into WAIT_TIMEOUT after the first one

VARIABLES
    \* ---- scrape_inf_data (src/scraper.py) ----
    pc,              \* position in scrape_inf_data
    ctx,             \* the browsing context: "none", "open", "closed"
    fetch_yesterday, \* the argument fetch_yesterday
    table,           \* the rows of "table.imp-table tbody" in the page
    loaded,          \* #range-selector was seen visible
    rowSeen,         \* the table held a row at some time since the page loaded
    renders,         \* re-renders so far
    err,             \* kind of the exception the outer except caught, or "none"
    ret,             \* the value a return statement has computed (before finally)
    result,          \* what the caller of scrape_inf_data gets
    idx,             \* index of the row the extraction loop is at
    items,           \* the list `items`
    thrown,          \* indexes of the rows whose extraction threw
    \* ---- wait_for_table_change (src/scraper.py) ----
    wpc,             \* position in wait_for_table_change, "idle" outside it
    caller,          \* which step of scrape_inf_data called it
    had,             \* first.count() > 0 at the snapshot
    text0,           \* the snapshot `text0`
    polls,           \* predicate evaluations that came out false
    wres,            \* how the last call ended: "none", "ok", "timeout", "error"
    \* ---- check_if_login_needed (src/auth.py) ----
    vpc,             \* position in check_if_login_needed
    vnav,            \* how page.goto(test_url) ended, "none" before it
    vurl,            \* page.url after the navigation
    vmarker,         \* how the wait for #range-selector ended, "none" before it
    login_needed,    \* the returned value: "pending", "True", "False"
    \* ---- the run log (src/notifications.py, src/settings.py) ----
    logDir,          \* the directory of JSON_LOG_FILE exists
    logFile,         \* JSON_LOG_FILE: [exists, data], data a sequence of pieces
    log_lock,        \* holder of settings.log_lock: 0 free, c a call, "filter"
    clock,           \* datetime.now(LOCAL_TIMEZONE): [day, hms]
    lpc,             \* position of each call of log_inf_results
    ldata,           \* the argument `data` of each call of log_inf_results
    \* ---- filter_items_posted_today (src/notifications.py) ----
    fpc,             \* position in filter_items_posted_today
    fitems,          \* the argument `items`
    today,           \* the local `today`
    posted_skus,     \* the set `posted_skus`
    fline,           \* index of the next line of the file to read
    ferr,            \* what stopped the reading: "none", "notfound", "error"
    filtered,        \* the returned list, Pending before the return
    \* ---- the session store and the login (src/auth.py) ----
    stateFile,       \* STORAGE_STATE: [exists, data], data a sequence of pieces
    stateFile0,      \* STORAGE_STATE as it was when the program started
    has_state,       \* what ensure_storage_state() returned, "pending" before
    spc,             \* position in prime_master_session / perform_login
    sctx,            \* the context of prime_master_session: "none", "open", "closed"
    screen,          \* what the page shows after the sign-in: "none", "otp", "dash", "picker"
    touched,         \* the page elements perform_login has filled or clicked
    picker,          \* the account picker was visible at the test of acct_sel
    bypass,          \* how the bypass ended: [nav, marker]
    dash_sel,        \* the local `dash_sel`
    shot,            \* prefix of the screenshot perform_login saved, "none" without
    lret,            \* what perform_login returned: "pending", "True", "False"
    lstage,          \* the step of perform_login that failed, "none" without
    otps,            \* submissions of the one-time passcode in this login
    dash_seen,       \* how the final wait for dash_sel ended, "none" before it
    shotres,         \* how save_screenshot ended: "none", "skipped", "saved", "error"
    confirm_nav,     \* how the visit of INVENTORY_URL after the login ended
    pret,            \* how prime_master_session ended: "pending", "True", "False", "raised"
    \* ---- main (src/inf.py) ----
    rpc,             \* position in main
    browser,         \* the browser and playwright: "none", "open", "closed"
    vctx,            \* the context opened to verify the session: "none", "open", "closed"
    login_required,  \* the local `login_required`
    primed,          \* how prime_master_session ended in this run, "none" if not called
    logins,          \* calls of prime_master_session in this run
    scrapes,         \* calls of scrape_inf_data in this run
    data,            \* the local `data`, Pending before the scrape
    report,          \* what main logged about `data`: "none", "error", "info", "items"
    todo,            \* the collaborator calls main has still to make
    calls,           \* the collaborator calls main has made
    rret,            \* how main ended: "running", "returned", "raised"
    octx,            \* the contexts the login and the scrape of the run opened
    shots,           \* the screenshots of this run: [op, attempt] of the call that took it
    \* ---- post_inf_to_chat (src/notifications.py) ----
    cpc,             \* position in post_inf_to_chat
    citems,          \* the argument `items`
    webhook,         \* INF_WEBHOOK is set
    stock_lookup,    \* ENABLE_STOCK_LOOKUP
    single_card,     \* SINGLE_CARD
    batches,         \* the batches still to post, over all categories
    sent,            \* the payloads posted so far: their items, how the post ended
    cret,            \* how post_inf_to_chat ended: "pending", "returned", "raised"
    \* ---- create_investigation_from_scrape (src/database.py) ----
    dpc,             \* position in create_investigation_from_scrape
    dclient,         \* supabase_client is configured
    dlog,            \* what it logged: "none", "warning", "error", "success"
    dret,            \* how it ended: "pending", "returned", "raised"
    dday,            \* the local date of the call
    dcalls,          \* calls of create_investigation_from_scrape so far
    dinv,            \* the local `investigation_id`, 0 before it is known
    investigations,  \* the names of the rows of the table "investigations"
    products,        \* the rows of the table "products": [investigation_id, sku]
    dhist,           \* the upserts that succeeded: [day, id]
    \* ---- enrich_items_with_stock_data (src/stock_checker.py) ----
    epc,             \* position in enrich_items_with_stock_data
    ekeys,           \* MORRISONS_API_KEY and MORRISONS_LOCATION_ID are set
    eitems,          \* the argument `items`
    eresults,        \* per task: [done, run, data], data the dict the lookup returned
    eorder,          \* the tasks in the order they completed
    enriched,        \* the returned list
    \* ---- get_investigation_projects (src/database.py) ----
    qpc,             \* position in get_investigation_projects
    qclient,         \* supabase_client is configured
    qid,             \* the argument `investigation_id`
    qorg,            \* the argument `organization`
    projects,        \* the rows of the table "projects"
    query,           \* the filters of the query that was executed
    executed,        \* calls of execute()
    qret,            \* what the call returned: [kind, rows]
    \* ---- a second call of filter_items_posted_today ----
    fround,          \* 1 in the first call of the filter, 2 in the second
    ffirst,          \* how the first call ended: [ferr, fline]
    \* ---- ensure_log_history_from_artifact (src/artifact_utils.py) ----
    apc,             \* per caller: position in ensure_log_history_from_artifact
    artifact_checked,\* _artifact_checked
    artifact_lock,   \* the caller that holds _artifact_lock, 0 when it is free
    sync_enabled,    \* ENABLE_ARTIFACT_LOG_SYNC
    saw_log,         \* per caller: what its test of JSON_LOG_FILE found
    downloaded,      \* the callers that called _download_log_history, in order
    aret             \* per caller: "pending", "returned", "raised"

scrapeVars == <<pc, ctx, fetch_yesterday, table, loaded, rowSeen, renders, err,
                ret, result, idx, items, thrown>>
waitVars == <<wpc, caller, had, text0, polls, wres>>
validateVars == <<vpc, vnav, vurl, vmarker, login_needed>>
logVars == <<logDir, logFile, log_lock, clock, lpc, ldata>>
filterVars == <<fpc, fitems, today, posted_skus, fline, ferr, filtered>>
sessionVars == <<stateFile, stateFile0, has_state, spc, sctx, screen, touched,
                 picker, bypass, dash_sel, shot, lret, pret,
                 lstage, otps, dash_seen, shotres, confirm_nav>>
loginVars == <<spc, sctx, screen, touched, picker, bypass, dash_sel, shot, lret, pret,
                 lstage, otps, dash_seen, shotres, confirm_nav>>
runVars == <<octx, rpc, browser, vctx, login_required, primed, logins, scrapes, data,
             report, todo, calls, rret, shots>>
chatVars == <<cpc, citems, webhook, stock_lookup, single_card, batches, sent, cret>>
dbVars == <<dpc, dclient, dlog, dret, dday, dcalls, dinv, investigations, products, dhist>>
notifyVars == <<chatVars, dbVars>>
enrichVars == <<epc, ekeys, eitems, eresults, eorder, enriched>>
projectsVars == <<qpc, qclient, qid, qorg, projects, query, executed, qret>>
replayVars == <<fround, ffirst>>
artifactVars == <<apc, artifact_checked, artifact_lock, sync_enabled, saw_log,
                  downloaded, aret>>
moreVars == <<enrichVars, projectsVars, replayVars, artifactVars>>
vars == <<scrapeVars, waitVars, validateVars, logVars, filterVars, sessionVars, runVars,
          notifyVars, moreVars>>

\* What a scrape leaves alone, and likewise for the other subsystems.
notScrape == <<validateVars, logVars, filterVars, sessionVars, runVars,
    notifyVars, moreVars>>
notValidate == <<scrapeVars, waitVars, logVars, filterVars, sessionVars, runVars,
    notifyVars, moreVars>>
notLog == <<scrapeVars, waitVars, validateVars, filterVars, sessionVars, runVars,
    notifyVars, moreVars>>
notFilter == <<scrapeVars, waitVars, validateVars, sessionVars, runVars,
    notifyVars, moreVars>>
notSession == <<scrapeVars, waitVars, validateVars, logVars, filterVars, runVars,
    notifyVars, moreVars>>
notRun == <<scrapeVars, waitVars, validateVars, logVars, filterVars, loginVars, stateFile0,
    notifyVars, moreVars>>
notNotify == <<scrapeVars, waitVars, validateVars, logVars, filterVars, sessionVars, runVars,
    moreVars>>
notEnrich == <<scrapeVars, waitVars, validateVars, logVars, filterVars, sessionVars, runVars,
    notifyVars, projectsVars, replayVars, artifactVars>>
notProjects == <<scrapeVars, waitVars, validateVars, logVars, filterVars, sessionVars, runVars,
    notifyVars, enrichVars, replayVars, artifactVars>>
notReplay == <<scrapeVars, waitVars, validateVars, logVars, sessionVars, runVars,
    notifyVars, enrichVars, projectsVars, artifactVars>>
notArtifact == <<scrapeVars, waitVars, validateVars, filterVars, sessionVars, runVars,
    notifyVars, enrichVars, projectsVars, replayVars>>

(***************************************************************************)
(* The page: rows, their text and their cells.                             *)
(***************************************************************************)
\* Text is a sequence of tokens; " " is white space.
RowA == [sku |-> "A", pad |-> FALSE, thumb |-> <<"img", "_SS40_", "jpg">>, cells |-> TRUE]
RowAPadded == [sku |-> "A", pad |-> TRUE, thumb |-> <<>>, cells |-> TRUE]
RowB == [sku |-> "B", pad |-> FALSE, thumb |-> <<"img", "jpg">>, cells |-> TRUE]
\* A row without data cells (a placeholder); reading any field of it throws.
RowBlank == [sku |-> "", pad |-> TRUE, thumb |-> <<>>, cells |-> FALSE]

RowSet == {RowA, RowAPadded, RowB, RowBlank}

SeqsUpTo(S, n) == UNION {[1..k -> S] : k \in 0..n}

\* The tables the page can show: every row of a report is another product.
Tables ==
    {t \in SeqsUpTo(RowSet, MaxRows) :
        \A m, n \in DOMAIN t : m # n => t[m] # t[n]}

\* el.textContent of a row.
TextContent(r) ==
    LET ws == IF r.pad THEN <<" ">> ELSE <<>>
        body == IF r.sku = "" THEN <<>> ELSE <<r.sku>>
    IN ws \o body \o ws

\* String.prototype.trim().
RECURSIVE TrimLeft(_)
TrimLeft(s) == IF s # <<>> /\ Head(s) = " " THEN TrimLeft(Tail(s)) ELSE s

RECURSIVE TrimRight(_)
TrimRight(s) ==
    IF s # <<>> /\ s[Len(s)] = " " THEN TrimRight(SubSeq(s, 1, Len(s) - 1)) ELSE s

Trim(s) == TrimRight(TrimLeft(s))

\* The predicate wait_for_function polls: no first row -> init !== '',
\* else el.textContent.trim() !== init.trim().
TableChanged_NoTrimNoSnapshot(tbl, init) == tbl # <<>>

TableChanged(tbl, init) ==
    IF tbl = <<>> THEN init # <<>>
    ELSE Trim(TextContent(tbl[1])) # Trim(init)

\* re.sub(r"\._SS\d+_\.", f"._SS{SMALL_IMAGE_SIZE}_.", thumb)
SizeTokens == {"_SS40_", "_SS100_", "_SS300_"}
SmallImageToken == "_SS300_"

Resize(thumb) ==
    [k \in DOMAIN thumb |-> IF thumb[k] \in SizeTokens THEN SmallImageToken ELSE thumb[k]]

\* The dict built for one row.
ItemOf(r) == [sku |-> r.sku, image_url |-> Resize(r.thumb)]

\* The fields are read in this order; field k throwing leaves the dict unbuilt.
NFields == 6

(***************************************************************************)
(* scrape_inf_data and wait_for_table_change (src/scraper.py).             *)
(***************************************************************************)
Outcomes == {"ok", "timeout", "error"}

Pending == [kind |-> "pending", items |-> <<>>]
Raised == [kind |-> "raised", items |-> <<>>]      \* an exception left the function
Failure == [kind |-> "None", items |-> <<>>]       \* return None
ItemList(s) == [kind |-> "list", items |-> s]      \* return a list; [] is ItemList(<<>>)

\* Before scrape_inf_data is called.
ScrapeIdle ==
    /\ pc = "start"
    /\ ctx = "none"
    /\ table = <<>>
    /\ loaded = FALSE
    /\ rowSeen = FALSE
    /\ renders = 0
    /\ err = "none"
    /\ ret = Pending
    /\ result = Pending
    /\ idx = 0
    /\ items = <<>>
    /\ thrown = {}
    /\ wpc = "idle"
    /\ caller = "none"
    /\ had = FALSE
    /\ text0 = <<>>
    /\ polls = 0
    /\ wres = "none"

InitScrape ==
    /\ ScrapeIdle
    /\ fetch_yesterday \in BOOLEAN

\* The outer `except Exception`: log, return None (then the finally clause).
Fail(e) ==
    /\ pc' = "finally"
    /\ ret' = Failure
    /\ err' = e

\* ctx = await browser.new_context(...), before the try statement.
OpenContext ==
    /\ pc = "start"
    /\ \E o \in {"ok", "error"} :
          IF o = "ok"
          THEN /\ ctx' = "open"
               /\ pc' = "new_page"
               /\ UNCHANGED result
          ELSE /\ pc' = "done"
               /\ result' = Raised
               /\ UNCHANGED ctx
    /\ UNCHANGED <<fetch_yesterday, table, loaded, rowSeen, renders, err, ret,
                   idx, items, thrown, waitVars>>
    /\ UNCHANGED notScrape

\* page = await ctx.new_page(), still before the try statement: an exception
\* here is neither caught nor followed by the finally clause.
OpenPage ==
    /\ pc = "new_page"
    /\ \E o \in {"ok", "error"} :
          IF o = "ok"
          THEN /\ pc' = "goto"
               /\ UNCHANGED result
          ELSE /\ pc' = "done"
               /\ result' = Raised
    /\ UNCHANGED <<ctx, fetch_yesterday, table, loaded, rowSeen, renders, err, ret,
                   idx, items, thrown, waitVars>>
    /\ UNCHANGED notScrape

\* await page.goto(url, ...)
Navigate ==
    /\ pc = "goto"
    /\ \E o \in Outcomes :
          IF o = "ok"
          THEN /\ pc' = "range"
               /\ UNCHANGED <<ret, err>>
          ELSE Fail(o)
    /\ UNCHANGED <<ctx, fetch_yesterday, table, loaded, rowSeen, renders, result,
                   idx, items, thrown, waitVars>>
    /\ UNCHANGED notScrape

\* await expect(page.locator("#range-selector")).to_be_visible(...); the page
\* has rendered its table by then, with whatever rows the report holds.
AwaitRangeSelector ==
    /\ pc = "range"
    /\ \/ /\ \E t \in Tables :
                /\ table' = t
                /\ rowSeen' = (t # <<>>)
          /\ loaded' = TRUE
          /\ pc' = IF fetch_yesterday THEN "yesterday" ELSE "probe"
          /\ UNCHANGED <<ret, err>>
       \/ /\ \E o \in {"timeout", "error"} : Fail(o)
          /\ UNCHANGED <<table, rowSeen, loaded>>
    /\ UNCHANGED <<ctx, fetch_yesterday, renders, result, idx, items, thrown, waitVars>>
    /\ UNCHANGED notScrape

\* A call of wait_for_table_change by the step the scrape is at.
StartWait ==
    /\ pc \in {"yesterday", "pagesize", "sort"}
    /\ wpc = "idle"
    /\ caller' = pc
    /\ pc' = "wait"
    /\ wpc' = "count"
    /\ UNCHANGED <<ctx, fetch_yesterday, table, loaded, rowSeen, renders, err, ret,
                   result, idx, items, thrown, had, text0, polls, wres>>
    /\ UNCHANGED notScrape

\* What the calling step does with the way wait_for_table_change ended:
\* the "Yesterday" filter and the sort let every exception reach the outer
\* except; the page-size step catches TimeoutError and goes on.
AfterWait_PageSizeStrict(c, o) ==
    CASE c = "yesterday" -> IF o = "ok" THEN "probe" ELSE "finally"
      [] c = "pagesize" -> IF o = "ok" THEN "sort" ELSE "finally"
      [] OTHER -> IF o = "ok" THEN "enumerate" ELSE "finally"

AfterWait_SortBestEffort(c, o) ==
    CASE c = "yesterday" -> IF o = "ok" THEN "probe" ELSE "finally"
      [] c = "pagesize" -> IF o \in {"ok", "timeout"} THEN "sort" ELSE "finally"
      [] OTHER -> IF o \in {"ok", "timeout"} THEN "enumerate" ELSE "finally"

AfterWait(c, o) ==
    CASE c = "yesterday" -> IF o = "ok" THEN "probe" ELSE "finally"
      [] c = "pagesize" -> IF o \in {"ok", "timeout"} THEN "sort" ELSE "finally"
      [] OTHER -> IF o = "ok" THEN "enumerate" ELSE "finally"

\* wait_for_table_change ends with outcome o and its caller goes on.
WaitEnds(o) ==
    /\ wpc' = "idle"
    /\ wres' = o
    /\ pc' = AfterWait(caller, o)
    /\ ret' = IF AfterWait(caller, o) = "finally" THEN Failure ELSE ret
    /\ err' = IF AfterWait(caller, o) = "finally" THEN o ELSE err

\* if await first.count() > 0:
WaitCount ==
    /\ pc = "wait" /\ wpc = "count"
    /\ \/ /\ had' = (table # <<>>)
          /\ text0' = <<>>
          /\ wpc' = IF table # <<>> THEN "text" ELSE "action"
          /\ UNCHANGED <<pc, ret, err, wres>>
       \/ /\ WaitEnds("error")
          /\ UNCHANGED <<had, text0>>
    /\ UNCHANGED <<ctx, fetch_yesterday, table, loaded, rowSeen, renders, result,
                   idx, items, thrown, caller, polls>>
    /\ UNCHANGED notScrape

\* text0 = await first.text_content() or "": with the row gone in the meantime
\* the call waits for it and times out.
WaitSnapshot ==
    /\ pc = "wait" /\ wpc = "text"
    /\ \/ /\ table # <<>>
          /\ text0' = TextContent(table[1])
          /\ wpc' = "action"
          /\ UNCHANGED <<pc, ret, err, wres>>
       \/ /\ table = <<>>
          /\ WaitEnds("timeout")
          /\ UNCHANGED text0
       \/ /\ WaitEnds("error")
          /\ UNCHANGED text0
    /\ UNCHANGED <<ctx, fetch_yesterday, table, loaded, rowSeen, renders, result,
                   idx, items, thrown, caller, had, polls>>
    /\ UNCHANGED notScrape

\* await action(): the click or the select_option.
WaitAction ==
    /\ pc = "wait" /\ wpc = "action"
    /\ \E o \in Outcomes :
          IF o = "ok"
          THEN /\ wpc' = "sleep"
               /\ UNCHANGED <<pc, ret, err, wres>>
          ELSE WaitEnds(o)
    /\ UNCHANGED <<ctx, fetch_yesterday, table, loaded, rowSeen, renders, result,
                   idx, items, thrown, caller, had, text0, polls>>
    /\ UNCHANGED notScrape

\* await asyncio.sleep(TABLE_POLL_DELAY)
WaitSleep ==
    /\ pc = "wait" /\ wpc = "sleep"
    /\ wpc' = "poll"
    /\ polls' = 0
    /\ UNCHANGED <<scrapeVars, caller, had, text0, wres>>
    /\ UNCHANGED notScrape

\* await page.wait_for_function(...): the predicate is evaluated on the page
\* as it is now; true ends the wait, false polls again until the timeout.
WaitPoll ==
    /\ pc = "wait" /\ wpc = "poll"
    /\ \/ /\ TableChanged(table, text0)
          /\ WaitEnds("ok")
          /\ UNCHANGED polls
       \/ /\ ~TableChanged(table, text0)
          /\ polls < MaxPolls
          /\ polls' = polls + 1
          /\ UNCHANGED <<pc, ret, err, wpc, wres>>
       \/ /\ ~TableChanged(table, text0)
          /\ polls = MaxPolls
          /\ WaitEnds("timeout")
          /\ UNCHANGED polls
       \/ /\ WaitEnds("error")
          /\ UNCHANGED polls
    /\ UNCHANGED <<ctx, fetch_yesterday, table, loaded, rowSeen, renders, result,
                   idx, items, thrown, caller, had, text0>>
    /\ UNCHANGED notScrape

\* await expect(page.locator(f"{table_sel} tr").first).to_be_visible(timeout=20000)
\* with `except TimeoutError: return []`.
ProbeRow ==
    /\ pc = "probe"
    /\ \/ /\ table # <<>>
          /\ pc' = "pagesize"
          /\ UNCHANGED <<ret, err>>
       \/ /\ table = <<>>
          /\ pc' = "finally"
          /\ ret' = ItemList(<<>>)
          /\ UNCHANGED err
       \/ Fail("error")
    /\ UNCHANGED <<ctx, fetch_yesterday, table, loaded, rowSeen, renders, result,
                   idx, items, thrown, waitVars>>
    /\ UNCHANGED notScrape

\* rows = await page.locator(f"{table_sel} tr").all(); items = []
EnumerateRows ==
    /\ pc = "enumerate"
    /\ \/ /\ pc' = "extract"
          /\ idx' = 1
          /\ items' = <<>>
          /\ thrown' = {}
          /\ UNCHANGED <<ret, err>>
       \/ /\ \E o \in {"timeout", "error"} : Fail(o)
          /\ UNCHANGED <<idx, items, thrown>>
    /\ UNCHANGED <<ctx, fetch_yesterday, table, loaded, rowSeen, renders, result, waitVars>>
    /\ UNCHANGED notScrape

\* One pass of the loop body: failAt = 0 reads all fields and appends the
\* dict; failAt = k > 0 is field k throwing, caught by the inner except.
RowStep(its, r, failAt) ==
    IF failAt = 0 THEN Append(its, ItemOf(r)) ELSE its

ExtractRow_AbortsOnThrow ==
    /\ pc = "extract"
    /\ idx <= Len(table)
    /\ \E failAt \in 0..NFields :
          /\ table[idx].cells \/ failAt > 0
          /\ items' = RowStep(items, table[idx], failAt)
          /\ thrown' = IF failAt > 0 THEN thrown \cup {idx} ELSE thrown
          /\ idx' = IF failAt > 0 THEN Len(table) + 1 ELSE idx + 1
    /\ UNCHANGED <<pc, ctx, fetch_yesterday, table, loaded, rowSeen, renders, err,
                   ret, result, waitVars>>
    /\ UNCHANGED notScrape

ExtractRow ==
    /\ pc = "extract"
    /\ idx <= Len(table)
    /\ \E failAt \in 0..NFields :
          /\ table[idx].cells \/ failAt > 0
          /\ items' = RowStep(items, table[idx], failAt)
          /\ thrown' = IF failAt > 0 THEN thrown \cup {idx} ELSE thrown
          /\ idx' = idx + 1
    /\ UNCHANGED <<pc, ctx, fetch_yesterday, table, loaded, rowSeen, renders, err,
                   ret, result, waitVars>>
    /\ UNCHANGED notScrape

\* return items
ReturnItems ==
    /\ pc = "extract"
    /\ idx > Len(table)
    /\ ret' = ItemList(items)
    /\ pc' = "finally"
    /\ UNCHANGED <<ctx, fetch_yesterday, table, loaded, rowSeen, renders, err,
                   result, idx, items, thrown, waitVars>>
    /\ UNCHANGED notScrape

\* finally: await ctx.close(); then the function returns.
CloseContext ==
    /\ pc = "finally"
    /\ ctx' = "closed"
    /\ result' = ret
    /\ pc' = "done"
    /\ UNCHANGED <<fetch_yesterday, table, loaded, rowSeen, renders, err, ret,
                   idx, items, thrown, waitVars>>
    /\ UNCHANGED notScrape

\* The page re-renders its table on its own schedule.  A re-render shows only
\* in what the next read of the page sees, so it is placed right before the
\* steps that read the table.  The table is taken to be stable while the
\* enumerated rows are read.
ReadsTable ==
    \/ pc \in {"probe", "enumerate"}
    \/ pc = "wait" /\ wpc \in {"count", "text", "poll"}

Render ==
    /\ loaded
    /\ ReadsTable
    /\ renders < MaxRenders
    /\ \E t \in Tables \ {table} :
          /\ table' = t
          /\ rowSeen' = (rowSeen \/ t # <<>>)
    /\ renders' = renders + 1
    /\ UNCHANGED <<pc, ctx, fetch_yesterday, loaded, err, ret, result, idx, items,
                   thrown, waitVars>>
    /\ UNCHANGED notScrape

NextScrape ==
    \/ OpenContext
    \/ OpenPage
    \/ Navigate
    \/ AwaitRangeSelector
    \/ StartWait
    \/ WaitCount
    \/ WaitSnapshot
    \/ WaitAction
    \/ WaitSleep
    \/ WaitPoll
    \/ ProbeRow
    \/ EnumerateRows
    \/ ExtractRow
    \/ ReturnItems
    \/ CloseContext
    \/ Render


(***************************************************************************)
(* check_if_login_needed (src/auth.py).                                    *)
(***************************************************************************)
MaxUrlLen == 3      \* parts of the URL the browser ends up at

\* A URL is a sequence of parts; these are the parts that matter to the test
\* `"signin" in page.url.lower() or "/ap/" in page.url`.
UrlParts == {"inventoryinsights", "signin", "SignIn", "/ap/", "/AP/"}

Urls == SeqsUpTo(UrlParts, MaxUrlLen)

\* str.lower() on one part.
LowerPart(x) ==
    CASE x = "SignIn" -> "signin"
      [] x = "/AP/" -> "/ap/"
      [] OTHER -> x

Lower(url) == [k \in DOMAIN url |-> LowerPart(url[k])]

Contains(url, part) == \E k \in DOMAIN url : url[k] = part

\* The sign-in redirect test of check_if_login_needed.
SignInRedirect(url) == Contains(Lower(url), "signin") \/ Contains(url, "/ap/")

ValidateIdle ==
    /\ vpc = "start"
    /\ vnav = "none"
    /\ vurl = <<>>
    /\ vmarker = "none"
    /\ login_needed = "pending"

\* await page.goto(test_url, ...); an exception is caught: return True.
ProbeGoto ==
    /\ vpc = "start"
    /\ \E o \in Outcomes :
          /\ vnav' = o
          /\ IF o = "ok"
             THEN /\ \E u \in Urls : vurl' = u
                  /\ vpc' = "url"
                  /\ UNCHANGED login_needed
             ELSE /\ vpc' = "done"
                  /\ login_needed' = "True"
                  /\ UNCHANGED vurl
    /\ UNCHANGED vmarker
    /\ UNCHANGED notValidate

\* if "signin" in page.url.lower() or "/ap/" in page.url: return True
CheckUrl ==
    /\ vpc = "url"
    /\ IF SignInRedirect(vurl)
       THEN /\ vpc' = "done"
            /\ login_needed' = "True"
       ELSE /\ vpc' = "marker"
            /\ UNCHANGED login_needed
    /\ UNCHANGED <<vnav, vurl, vmarker>>
    /\ UNCHANGED notValidate

\* await expect(page.locator("#range-selector")).to_be_visible(...): return
\* False when it is visible; an exception is caught: return True.
AwaitMarker_FailOpen ==
    /\ vpc = "marker"
    /\ \E o \in Outcomes :
          /\ vmarker' = o
          /\ login_needed' = IF o = "error" THEN "True" ELSE "False"
    /\ vpc' = "done"
    /\ UNCHANGED <<vnav, vurl>>
    /\ UNCHANGED notValidate

AwaitMarker ==
    /\ vpc = "marker"
    /\ \E o \in Outcomes :
          /\ vmarker' = o
          /\ login_needed' = IF o = "ok" THEN "False" ELSE "True"
    /\ vpc' = "done"
    /\ UNCHANGED <<vnav, vurl>>
    /\ UNCHANGED notValidate

NextValidate ==
    \/ ProbeGoto
    \/ CheckUrl
    \/ AwaitMarker


(***************************************************************************)
(* The run log file (src/notifications.py, src/settings.py).               *)
(***************************************************************************)
MaxLines == 2       \* lines the run log holds before the calls modelled
MaxItems == 2       \* items of a candidate batch
MaxCalls == 2       \* concurrent calls of log_inf_results
MaxRuns == 3        \* calls of create_investigation_from_scrape, one per run

Calls == 1..MaxCalls

\* The items a scrape can yield.
ScrapedItems == {ItemOf(r) : r \in RowSet}

\* A "%Y-%m-%d %H:%M:%S" time stamp, a value without that format, and none.
Stamp(day, hms) == [fmt |-> "ok", day |-> day, hms |-> hms]
BadStamp == [fmt |-> "bad", day |-> 2, hms |-> "12:00:00"]
NoStamp == [fmt |-> "missing", day |-> 0, hms |-> ""]

\* datetime.now(LOCAL_TIMEZONE).strftime("%Y-%m-%d %H:%M:%S")
FormatStamp(now) == Stamp(now.day, now.hms)

\* datetime.strptime(timestamp, "%Y-%m-%d %H:%M:%S"): ValueError unless the
\* text has the format.
ParseStamp(ts) ==
    IF ts.fmt = "ok" THEN [ok |-> TRUE, day |-> ts.day, hms |-> ts.hms]
    ELSE [ok |-> FALSE, day |-> 0, hms |-> ""]

\* What a line of the file holds: white space only, text that is not JSON,
\* a JSON value that is no object, or an entry object.
BlankLine == [kind |-> "blank", ts |-> NoStamp, items |-> <<>>]
BadJsonLine == [kind |-> "badjson", ts |-> NoStamp, items |-> <<>>]
NonObjectLine == [kind |-> "nonobject", ts |-> NoStamp, items |-> <<>>]
EntryLine(ts, its) == [kind |-> "entry", ts |-> ts, items |-> its]

\* The lines a run log is taken to hold at the start; the day is 2.
StoredLines ==
    {BlankLine, BadJsonLine, NonObjectLine,
     EntryLine(NoStamp, <<ItemOf(RowA)>>),
     EntryLine(BadStamp, <<ItemOf(RowA)>>),
     EntryLine(Stamp(1, "23:59:59"), <<ItemOf(RowA)>>),
     EntryLine(Stamp(2, "00:00:00"), <<ItemOf(RowA)>>),
     EntryLine(Stamp(2, "00:00:00"), <<ItemOf(RowB)>>),
     EntryLine(Stamp(2, "00:00:00"), <<ItemOf(RowBlank)>>)}

\* The file is a sequence of pieces in the order they reached it.  A piece of
\* part "line" is a whole line with its newline.  json.dumps(entry) + "\n" of
\* call w reaches the file as a "head" (no newline yet) and a "tail" (the
\* rest and the newline): a write is not one atomic step of the file.
StoredPiece(v) == [w |-> 0, part |-> "line", val |-> v]
HeadPiece(c, v) == [w |-> c, part |-> "head", val |-> v]
TailPiece(c, v) == [w |-> c, part |-> "tail", val |-> v]

NoFile == [exists |-> FALSE, data |-> <<>>]
FileOf(d) == [exists |-> TRUE, data |-> d]

StoredFiles ==
    {NoFile} \cup {FileOf(d) : d \in SeqsUpTo({StoredPiece(v) : v \in StoredLines}, MaxLines)}

\* The lines of the file, as iterating over it yields them: a newline ends a
\* line, and what follows the last newline is a line too.
RECURSIVE SplitFrom(_, _, _)
SplitFrom(txt, k, cur) ==
    IF k > Len(txt) THEN (IF cur = <<>> THEN <<>> ELSE <<cur>>)
    ELSE IF txt[k].part \in {"line", "tail"}
         THEN <<Append(cur, txt[k])>> \o SplitFrom(txt, k + 1, <<>>)
         ELSE SplitFrom(txt, k + 1, Append(cur, txt[k]))

SplitLines(txt) == SplitFrom(txt, 1, <<>>)

\* json.loads(line.strip()): a stored line gives its value; the head and the
\* tail of one dumped entry give the entry back; any other mix is not JSON.
ParseLine(ln) ==
    IF Len(ln) = 1 /\ ln[1].part = "line" THEN ln[1].val
    ELSE IF /\ Len(ln) = 2
            /\ ln[1].part = "head" /\ ln[2].part = "tail"
            /\ ln[1].w = ln[2].w /\ ln[1].val = ln[2].val
         THEN ln[1].val
         ELSE BadJsonLine

Free == [who |-> "free", id |-> 0]
ByFilter == [who |-> "filter", id |-> 0]
ByCall(c) == [who |-> "call", id |-> c]

\* Before any call of log_inf_results: OUTPUT_DIR exists (settings.py makes it
\* on import) and the calls are about to start.
LogIdle ==
    /\ logDir = TRUE
    /\ logFile = NoFile
    /\ log_lock = Free
    /\ clock = [day |-> 2, hms |-> "12:00:00"]
    /\ lpc = [c \in Calls |-> "lock"]
    /\ ldata = [c \in Calls |-> <<>>]

\* The batches the calls log.
LogBatches == {<<ItemOf(RowA)>>, <<ItemOf(RowB), ItemOf(RowBlank)>>}

InitLog ==
    /\ logDir = TRUE
    /\ logFile \in StoredFiles
    /\ log_lock = Free
    /\ clock = [day |-> 2, hms |-> "12:00:00"]
    /\ lpc = [c \in Calls |-> "lock"]
    /\ ldata \in [Calls -> LogBatches]

\* As InitLog, with JSON_LOG_FILE set to a path whose directory may not
\* exist (tests/test_notifications.py sets it so).
InitLogAnyDir ==
    /\ logDir \in BOOLEAN
    /\ logFile \in (IF logDir THEN StoredFiles ELSE {NoFile})
    /\ log_lock = Free
    /\ clock = [day |-> 2, hms |-> "12:00:00"]
    /\ lpc = [c \in Calls |-> "lock"]
    /\ ldata \in [Calls -> LogBatches]

\* entry = {"timestamp": ..., "store": ..., "inf_items": data}
Entry(c) == EntryLine(FormatStamp(clock), ldata[c])

\* async with log_lock: the lock is taken when it is free.
CanAcquire_NoLock == TRUE

CanAcquire == log_lock = Free

LogAcquire(c) ==
    /\ lpc[c] = "lock"
    /\ CanAcquire
    /\ log_lock' = ByCall(c)
    /\ lpc' = [lpc EXCEPT ![c] = "open"]
    /\ UNCHANGED <<logDir, logFile, clock, ldata>>
    /\ UNCHANGED notLog

\* aiofiles.open(JSON_LOG_FILE, "a"): creates the file in an existing
\* directory; FileNotFoundError without the directory, which the except
\* clause logs.
LogOpen(c) ==
    /\ lpc[c] = "open"
    /\ IF logDir
       THEN /\ logFile' = [logFile EXCEPT !.exists = TRUE]
            /\ lpc' = [lpc EXCEPT ![c] = "write"]
       ELSE /\ lpc' = [lpc EXCEPT ![c] = "release"]
            /\ UNCHANGED logFile
    /\ UNCHANGED <<logDir, log_lock, clock, ldata>>
    /\ UNCHANGED notLog

\* await f.write(json.dumps(entry) + "\n"): the first part reaches the file.
LogWriteHead(c) ==
    /\ lpc[c] = "write"
    /\ logFile' = [logFile EXCEPT !.data = Append(@, HeadPiece(c, Entry(c)))]
    /\ lpc' = [lpc EXCEPT ![c] = "flush"]
    /\ UNCHANGED <<logDir, log_lock, clock, ldata>>
    /\ UNCHANGED notLog

\* The rest of the line reaches the file, at the latest when f is closed.
LogWriteTail(c) ==
    /\ lpc[c] = "flush"
    /\ logFile' = [logFile EXCEPT !.data = Append(@, TailPiece(c, Entry(c)))]
    /\ lpc' = [lpc EXCEPT ![c] = "release"]
    /\ UNCHANGED <<logDir, log_lock, clock, ldata>>
    /\ UNCHANGED notLog

\* The end of `async with log_lock`.
LogRelease(c) ==
    /\ lpc[c] = "release"
    /\ log_lock' = Free
    /\ lpc' = [lpc EXCEPT ![c] = "done"]
    /\ UNCHANGED <<logDir, logFile, clock, ldata>>
    /\ UNCHANGED notLog

NextLog ==
    \E c \in Calls :
        \/ LogAcquire(c)
        \/ LogOpen(c)
        \/ LogWriteHead(c)
        \/ LogWriteTail(c)
        \/ LogRelease(c)


(***************************************************************************)
(* filter_items_posted_today (src/notifications.py).                       *)
(***************************************************************************)
FilterIdle ==
    /\ fpc = "start"
    /\ fitems = <<>>
    /\ today = 0
    /\ posted_skus = {}
    /\ fline = 0
    /\ ferr = "none"
    /\ filtered = Pending

InitFilter ==
    /\ fpc = "start"
    /\ fitems \in SeqsUpTo(ScrapedItems, MaxItems)
    /\ today = 0
    /\ posted_skus = {}
    /\ fline = 0
    /\ ferr = "none"
    /\ filtered = Pending

\* The body of `async for line in f` for one line with value v: whether it
\* raises out of the loop, and the SKUs it adds to posted_skus.
\*   blank, not JSON, no time stamp, bad time stamp, another day: continue;
\*   a value without .get (no object): AttributeError;
\*   else every truthy sku of entry["inf_items"] is added.
LineEffect_NonObjectSkipped(v, td) ==
    CASE v.kind \in {"blank", "badjson", "nonobject"} -> [raises |-> FALSE, skus |-> {}]
      [] OTHER ->
           IF v.ts.fmt = "missing" \/ ~ParseStamp(v.ts).ok \/ ParseStamp(v.ts).day # td
           THEN [raises |-> FALSE, skus |-> {}]
           ELSE [raises |-> FALSE,
                 skus |-> {v.items[k].sku : k \in {j \in DOMAIN v.items : v.items[j].sku # ""}}]

LineEffect_AnyDay(v, td) ==
    CASE v.kind \in {"blank", "badjson"} -> [raises |-> FALSE, skus |-> {}]
      [] v.kind = "nonobject" -> [raises |-> TRUE, skus |-> {}]
      [] OTHER ->
           IF v.ts.fmt = "missing" \/ ~ParseStamp(v.ts).ok
           THEN [raises |-> FALSE, skus |-> {}]
           ELSE [raises |-> FALSE,
                 skus |-> {v.items[k].sku : k \in {j \in DOMAIN v.items : v.items[j].sku # ""}}]

LineEffect(v, td) ==
    CASE v.kind \in {"blank", "badjson"} -> [raises |-> FALSE, skus |-> {}]
      [] v.kind = "nonobject" -> [raises |-> TRUE, skus |-> {}]
      [] OTHER ->
           IF v.ts.fmt = "missing" \/ ~ParseStamp(v.ts).ok \/ ParseStamp(v.ts).day # td
           THEN [raises |-> FALSE, skus |-> {}]
           ELSE [raises |-> FALSE,
                 skus |-> {v.items[k].sku : k \in {j \in DOMAIN v.items : v.items[j].sku # ""}}]

KeepUnposted_FirstPostedOnly(its, posted) ==
    LET hits == {k \in DOMAIN its : its[k].sku \in posted} IN
    IF hits = {} THEN its
    ELSE LET h == CHOOSE k \in hits : \A j \in hits : k <= j IN
         [k \in 1..(Len(its) - 1) |-> IF k < h THEN its[k] ELSE its[k + 1]]

\* [item for item in items if str(item.get("sku")) not in posted_skus]
KeepUnposted(its, posted) == SelectSeq(its, LAMBDA it : it.sku \notin posted)

\* if not items: return []; today = datetime.now(LOCAL_TIMEZONE).date()
FilterStart ==
    /\ fpc = "start"
    /\ IF fitems = <<>>
       THEN /\ filtered' = ItemList(<<>>)
            /\ fpc' = "done"
            /\ UNCHANGED today
       ELSE /\ today' = clock.day
            /\ fpc' = "lock"
            /\ UNCHANGED filtered
    /\ UNCHANGED <<fitems, posted_skus, fline, ferr>>
    /\ UNCHANGED logVars
    /\ UNCHANGED notFilter

\* async with log_lock:
FilterAcquire ==
    /\ fpc = "lock"
    /\ log_lock = Free
    /\ log_lock' = ByFilter
    /\ fpc' = "open"
    /\ UNCHANGED <<fitems, today, posted_skus, fline, ferr, filtered>>
    /\ UNCHANGED <<logDir, logFile, clock, lpc, ldata>>
    /\ UNCHANGED notFilter

\* return items, out of the `async with log_lock` block.
ReturnAll(e) ==
    /\ ferr' = e
    /\ filtered' = ItemList(fitems)
    /\ log_lock' = Free
    /\ fpc' = "done"

\* aiofiles.open(JSON_LOG_FILE, "r"): FileNotFoundError and any other
\* exception both end in `return items`.
FilterOpen_EmptyWithoutFile ==
    /\ fpc = "open"
    /\ \/ /\ logFile.exists
          /\ fpc' = "read"
          /\ fline' = 1
          /\ UNCHANGED <<ferr, filtered, log_lock>>
       \/ /\ ~logFile.exists
          /\ ferr' = "notfound"
          /\ filtered' = ItemList(<<>>)
          /\ log_lock' = Free
          /\ fpc' = "done"
          /\ UNCHANGED fline
       \/ /\ ReturnAll("error")
          /\ UNCHANGED fline
    /\ UNCHANGED <<fitems, today, posted_skus>>
    /\ UNCHANGED <<logDir, logFile, clock, lpc, ldata>>
    /\ UNCHANGED notFilter

FilterOpen ==
    /\ fpc = "open"
    /\ \/ /\ logFile.exists
          /\ fpc' = "read"
          /\ fline' = 1
          /\ UNCHANGED <<ferr, filtered, log_lock>>
       \/ /\ ~logFile.exists
          /\ ReturnAll("notfound")
          /\ UNCHANGED fline
       \/ /\ ReturnAll("error")
          /\ UNCHANGED fline
    /\ UNCHANGED <<fitems, today, posted_skus>>
    /\ UNCHANGED <<logDir, logFile, clock, lpc, ldata>>
    /\ UNCHANGED notFilter

\* One pass of `async for line in f`.
FilterReadLine ==
    /\ fpc = "read"
    /\ fline <= Len(SplitLines(logFile.data))
    /\ LET e == LineEffect(ParseLine(SplitLines(logFile.data)[fline]), today)
       IN IF e.raises
          THEN /\ ReturnAll("error")
               /\ UNCHANGED <<posted_skus, fline>>
          ELSE /\ posted_skus' = posted_skus \cup e.skus
               /\ fline' = fline + 1
               /\ UNCHANGED <<ferr, filtered, log_lock, fpc>>
    /\ UNCHANGED <<fitems, today>>
    /\ UNCHANGED <<logDir, logFile, clock, lpc, ldata>>
    /\ UNCHANGED notFilter

\* After the last line: the lock is released; if not posted_skus: return
\* items; else the filtered list.
FilterReturn ==
    /\ fpc = "read"
    /\ fline > Len(SplitLines(logFile.data))
    /\ log_lock' = Free
    /\ filtered' = IF posted_skus = {} THEN ItemList(fitems)
                   ELSE ItemList(KeepUnposted(fitems, posted_skus))
    /\ fpc' = "done"
    /\ UNCHANGED <<fitems, today, posted_skus, fline, ferr>>
    /\ UNCHANGED <<logDir, logFile, clock, lpc, ldata>>
    /\ UNCHANGED notFilter

NextFilter ==
    \/ FilterStart
    \/ FilterAcquire
    \/ FilterOpen
    \/ FilterReadLine
    \/ FilterReturn

(***************************************************************************)
(* The session store (src/auth.py).  STORAGE_STATE holds the text of a     *)
(* JSON value; a complete text is a head piece and a tail piece of the     *)
(* same value, so that a write that stops half way leaves the head alone.  *)
(***************************************************************************)
\* What the "cookies" member of a stored object can be: not there, null, an
\* empty list, a list of cookies, a number other than zero, zero.
CookieKinds == {"absent", "null", "empty", "list", "number", "zero"}

\* JSON values: an object with its "cookies" member, and an array.
SessionValue(c, id) == [type |-> "object", cookies |-> c, id |-> id]
ArrayValue == [type |-> "array", cookies |-> "absent", id |-> 0]

\* The text json.dumps gives for v, in the two pieces a write delivers.
Blob(v) == <<[part |-> "head", val |-> v], [part |-> "tail", val |-> v]>>

\* A text that is no JSON.
GarbageText == <<[part |-> "garbage", val |-> ArrayValue]>>

\* json.load: the value of a complete text; anything else raises.
JsonLoad(txt) ==
    IF /\ Len(txt) = 2
       /\ txt[1].part = "head" /\ txt[2].part = "tail"
       /\ txt[1].val = txt[2].val
    THEN [ok |-> TRUE, val |-> txt[1].val]
    ELSE [ok |-> FALSE, val |-> ArrayValue]

\* Python's truth value of data.get("cookies").
IsTruthy(c) == c \in {"list", "number"}

\* The files STORAGE_STATE can be when the program starts: missing, of size
\* zero, no JSON, an array, an object (of an earlier login) with any
\* "cookies", the head of an object.
NoState == [exists |-> FALSE, data |-> <<>>]
StateOf(d) == [exists |-> TRUE, data |-> d]
StoredStates ==
    {NoState, StateOf(<<>>), StateOf(GarbageText), StateOf(Blob(ArrayValue))}
        \cup {StateOf(Blob(SessionValue(c, 1))) : c \in CookieKinds}
        \cup {StateOf(<<Blob(SessionValue("list", 1))[1]>>)}

\* The storage state of the context after a login.
NewSession == SessionValue("list", 2)

\* ensure_storage_state: False, or the value of data.get("cookies").
ensure_storage_state(f) ==
    IF ~f.exists \/ f.data = <<>> THEN "False"
    ELSE IF ~JsonLoad(f.data).ok THEN "False"
    ELSE IF JsonLoad(f.data).val.type # "object" THEN "False"
    ELSE JsonLoad(f.data).val.cookies

SessionIdle ==
    /\ stateFile = StateOf(Blob(SessionValue("list", 1)))
    /\ stateFile0 = stateFile
    /\ has_state = "pending"
    /\ spc = "idle"
    /\ sctx = "none"
    /\ screen = "none"
    /\ touched = {}
    /\ picker = FALSE
    /\ bypass = [nav |-> "none", marker |-> "none"]
    /\ dash_sel = "#content"
    /\ shot = "none"
    /\ lret = "pending"
    /\ lstage = "none"
    /\ otps = 0
    /\ dash_seen = "none"
    /\ shotres = "none"
    /\ confirm_nav = "none"
    /\ pret = "pending"

InitSession ==
    /\ stateFile \in StoredStates
    /\ stateFile0 = stateFile
    /\ has_state = "pending"
    /\ spc = "ensure"
    /\ sctx = "none"
    /\ screen = "none"
    /\ touched = {}
    /\ picker = FALSE
    /\ bypass = [nav |-> "none", marker |-> "none"]
    /\ dash_sel = "#content"
    /\ shot = "none"
    /\ lret = "pending"
    /\ lstage = "none"
    /\ otps = 0
    /\ dash_seen = "none"
    /\ shotres = "none"
    /\ confirm_nav = "none"
    /\ pret = "pending"

\* A call of ensure_storage_state, before the login and after it.
EnsureState ==
    /\ spc \in {"ensure", "done"}
    /\ has_state' = ensure_storage_state(stateFile)
    /\ spc' = IF spc = "ensure" THEN "new_context" ELSE "end"
    /\ UNCHANGED <<stateFile, stateFile0, lstage, otps, dash_seen, shotres, confirm_nav, sctx, screen, touched, picker, bypass,
                   dash_sel, shot, lret, pret>>
    /\ UNCHANGED notSession

(***************************************************************************)
(* perform_login (src/auth.py).                                            *)
(***************************************************************************)
\* save_screenshot(page, prefix): nothing is done when the page is closed;
\* an exception of page.screenshot is caught and logged.
ShotOutcomes == {"skipped", "saved", "error"}

save_screenshot(prefix) ==
    /\ shot' = prefix
    /\ shotres' \in ShotOutcomes

\* No step has failed: nothing is returned and no screenshot is taken.
LoginGoesOn == UNCHANGED <<lret, shot, shotres, lstage>>

\* except Exception: save_screenshot(page, "login_failure"); return False
LoginFailed_ScreenshotErrorEscapes(stage) ==
    /\ lstage' = stage
    /\ save_screenshot("login_failure")
    /\ lret' = IF shotres' = "error" THEN "raised" ELSE "False"
    /\ spc' = "after_login"

LoginFailed(stage) ==
    /\ lstage' = stage
    /\ save_screenshot("login_failure")
    /\ lret' = "False"
    /\ spc' = "after_login"

\* The except of the bypass: save_screenshot(page, "login_account_picker");
\* return False.
BypassFailed(stage) ==
    /\ lstage' = stage
    /\ save_screenshot("login_account_picker")
    /\ lret' = "False"
    /\ spc' = "after_login"

\* await page.goto(LOGIN_URL, ...)
LoginGoto ==
    /\ spc = "l_goto"
    /\ \E o \in Outcomes :
          IF o = "ok" THEN spc' = "l_entry" /\ LoginGoesOn
          ELSE LoginFailed("goto")
    /\ UNCHANGED <<stateFile, stateFile0, has_state, confirm_nav, sctx, screen, touched, picker,
                   bypass, dash_sel, pret, otps, dash_seen>>
    /\ UNCHANGED notSession

\* wait_for_selector for the two "continue" prompts and the e-mail field,
\* and the click on the prompt that is visible.
LoginEntry ==
    /\ spc = "l_entry"
    /\ \E o \in Outcomes, first \in {"cont_input", "cont_btn", "email"} :
          IF o = "ok"
          THEN /\ touched' = IF first = "email" THEN touched ELSE touched \cup {first}
               /\ spc' = "l_email"
               /\ LoginGoesOn
          ELSE LoginFailed("entry") /\ UNCHANGED touched
    /\ UNCHANGED <<stateFile, stateFile0, has_state, confirm_nav, sctx, screen, picker, bypass,
                   dash_sel, pret, otps, dash_seen>>
    /\ UNCHANGED notSession

\* The e-mail field: expect visible, fill, click "Continue".
LoginEmail ==
    /\ spc = "l_email"
    /\ \E o \in Outcomes :
          IF o = "ok"
          THEN /\ touched' = touched \cup {"email"}
               /\ spc' = "l_password"
               /\ LoginGoesOn
          ELSE LoginFailed("email") /\ UNCHANGED touched
    /\ UNCHANGED <<stateFile, stateFile0, has_state, confirm_nav, sctx, screen, picker, bypass,
                   dash_sel, pret, otps, dash_seen>>
    /\ UNCHANGED notSession

\* The password field: expect visible, fill, click "Sign in".
LoginPassword ==
    /\ spc = "l_password"
    /\ \E o \in Outcomes :
          IF o = "ok"
          THEN /\ touched' = touched \cup {"password"}
               /\ spc' = "l_race"
               /\ LoginGoesOn
          ELSE LoginFailed("password") /\ UNCHANGED touched
    /\ UNCHANGED <<stateFile, stateFile0, has_state, confirm_nav, sctx, screen, picker, bypass,
                   dash_sel, pret, otps, dash_seen>>
    /\ UNCHANGED notSession

\* wait_for_selector for the passcode field, the dashboard and the picker.
LoginRace ==
    /\ spc = "l_race"
    /\ \E o \in Outcomes, sc \in {"otp", "dash", "picker"} :
          IF o = "ok"
          THEN /\ screen' = sc
               /\ spc' = "l_otp"
               /\ LoginGoesOn
          ELSE LoginFailed("race") /\ UNCHANGED screen
    /\ UNCHANGED <<stateFile, stateFile0, has_state, confirm_nav, sctx, touched, picker, bypass,
                   dash_sel, pret, otps, dash_seen>>
    /\ UNCHANGED notSession

\* What the page shows after the passcode was submitted; the wait that
\* follows is for the dashboard and the picker only, and expires while the
\* passcode field is still the one shown.
AfterOtp == {"otp", "dash", "picker"}

OtpWaitEnds(sc) == IF sc = "otp" THEN {"timeout", "error"} ELSE Outcomes

\* if otp_sel is visible: fill the code, click "Sign in", wait for the
\* dashboard or the picker.
LoginOtp_SubmitsWhileShown ==
    /\ spc = "l_otp"
    /\ IF screen = "otp"
       THEN \E fill \in Outcomes :
               IF fill # "ok"
               THEN LoginFailed("otp") /\ UNCHANGED <<screen, touched, otps>>
               ELSE /\ touched' = touched \cup {"otp"}
                    /\ otps' = otps + 1
                    /\ \E sc \in AfterOtp :
                          /\ screen' = sc
                          /\ IF sc = "otp" /\ otps = 0
                             THEN spc' = "l_otp" /\ LoginGoesOn
                             ELSE \E o \in OtpWaitEnds(sc) :
                                     IF o = "ok"
                                     THEN spc' = "l_picker" /\ LoginGoesOn
                                     ELSE LoginFailed("otp")
       ELSE /\ spc' = "l_picker"
            /\ LoginGoesOn
            /\ UNCHANGED <<screen, touched, otps>>
    /\ UNCHANGED <<stateFile, stateFile0, has_state, confirm_nav, sctx, picker, bypass,
                   dash_sel, pret, dash_seen>>
    /\ UNCHANGED notSession

LoginOtp ==
    /\ spc = "l_otp"
    /\ IF screen = "otp"
       THEN \E fill \in Outcomes :
               IF fill # "ok"
               THEN LoginFailed("otp") /\ UNCHANGED <<screen, touched, otps>>
               ELSE /\ touched' = touched \cup {"otp"}
                    /\ otps' = otps + 1
                    /\ \E sc \in AfterOtp, o \in Outcomes :
                          /\ o \in OtpWaitEnds(sc)
                          /\ screen' = sc
                          /\ IF o = "ok"
                             THEN spc' = "l_picker" /\ LoginGoesOn
                             ELSE LoginFailed("otp")
       ELSE /\ spc' = "l_picker"
            /\ LoginGoesOn
            /\ UNCHANGED <<screen, touched, otps>>
    /\ UNCHANGED <<stateFile, stateFile0, has_state, confirm_nav, sctx, picker, bypass,
                   dash_sel, pret, dash_seen>>
    /\ UNCHANGED notSession

\* if acct_sel is visible: page.goto(INVENTORY_URL, ...); an exception is
\* caught: save_screenshot(page, "login_account_picker"); return False.
LoginPicker ==
    /\ spc = "l_picker"
    /\ IF screen = "picker"
       THEN /\ picker' = TRUE
            /\ \E o \in Outcomes :
                  /\ bypass' = [bypass EXCEPT !.nav = o]
                  /\ IF o = "ok"
                     THEN spc' = "l_bypass" /\ LoginGoesOn
                     ELSE BypassFailed("bypass")
       ELSE /\ spc' = "l_dash"
            /\ LoginGoesOn
            /\ UNCHANGED <<picker, bypass>>
    /\ UNCHANGED <<stateFile, stateFile0, has_state, confirm_nav, sctx, screen, touched,
                   dash_sel, pret, otps, dash_seen>>
    /\ UNCHANGED notSession

\* await expect(page.locator(range_sel)).to_be_visible(...); dash_sel =
\* range_sel; an exception is caught: screenshot, return False.
LoginBypassMarker_FallsThrough ==
    /\ spc = "l_bypass"
    /\ \E o \in Outcomes :
          /\ bypass' = [bypass EXCEPT !.marker = o]
          /\ dash_sel' = IF o = "ok" THEN "#range-selector" ELSE dash_sel
          /\ spc' = "l_dash"
          /\ LoginGoesOn
    /\ UNCHANGED <<stateFile, stateFile0, has_state, confirm_nav, sctx, screen, touched, picker,
                   pret, otps, dash_seen>>
    /\ UNCHANGED notSession

LoginBypassMarker ==
    /\ spc = "l_bypass"
    /\ \E o \in Outcomes :
          /\ bypass' = [bypass EXCEPT !.marker = o]
          /\ IF o = "ok"
             THEN /\ dash_sel' = "#range-selector"
                  /\ spc' = "l_dash"
                  /\ LoginGoesOn
             ELSE BypassFailed("bypass") /\ UNCHANGED dash_sel
    /\ UNCHANGED <<stateFile, stateFile0, has_state, confirm_nav, sctx, screen, touched, picker,
                   pret, otps, dash_seen>>
    /\ UNCHANGED notSession

\* await expect(page.locator(dash_sel)).to_be_visible(...); return True
LoginDash_TrustsEarlierWait ==
    /\ spc = "l_dash"
    /\ \E o \in Outcomes :
          /\ dash_seen' = o
          /\ lret' = "True"
          /\ spc' = "after_login"
          /\ UNCHANGED <<shot, shotres, lstage>>
    /\ UNCHANGED <<stateFile, stateFile0, has_state, confirm_nav, sctx, screen, touched, picker,
                   bypass, dash_sel, pret, otps>>
    /\ UNCHANGED notSession

LoginDash ==
    /\ spc = "l_dash"
    /\ \E o \in Outcomes :
          /\ dash_seen' = o
          /\ IF o = "ok"
             THEN /\ lret' = "True"
                  /\ spc' = "after_login"
                  /\ UNCHANGED <<shot, shotres, lstage>>
             ELSE LoginFailed("dash")
    /\ UNCHANGED <<stateFile, stateFile0, has_state, confirm_nav, sctx, screen, touched, picker,
                   bypass, dash_sel, pret, otps>>
    /\ UNCHANGED notSession

(***************************************************************************)
(* prime_master_session (src/auth.py).  ctx.storage_state(path=...) writes *)
(* the text to STORAGE_STATE itself: the file is opened for writing, which *)
(* empties it, and the text is written in pieces.                          *)
(***************************************************************************)
\* An exception inside the try: the finally closes the context.
PrimeRaises ==
    /\ pret' = "raised"
    /\ spc' = "finally"

\* ctx = await browser.new_context(...), before the try.
PrimeNewContext ==
    /\ spc = "new_context"
    /\ \E o \in Outcomes :
          IF o = "ok"
          THEN sctx' = "open" /\ spc' = "new_page" /\ UNCHANGED pret
          ELSE pret' = "raised" /\ spc' = "done" /\ UNCHANGED sctx
    /\ UNCHANGED <<stateFile, stateFile0, lstage, otps, dash_seen, shotres, confirm_nav, has_state, screen, touched, picker,
                   bypass, dash_sel, shot, lret>>
    /\ UNCHANGED notSession

\* page = await ctx.new_page()
PrimeNewPage ==
    /\ spc = "new_page"
    /\ \E o \in Outcomes :
          IF o = "ok" THEN spc' = "l_goto" /\ UNCHANGED pret
          ELSE PrimeRaises
    /\ UNCHANGED <<stateFile, stateFile0, lstage, otps, dash_seen, shotres, confirm_nav, has_state, sctx, screen, touched, picker,
                   bypass, dash_sel, shot, lret>>
    /\ UNCHANGED notSession

\* if not await perform_login(page): return False
PrimeAfterLogin_SavesAnyway ==
    /\ spc = "after_login"
    /\ spc' = "confirm"
    /\ UNCHANGED <<stateFile, stateFile0, lstage, otps, dash_seen, shotres, confirm_nav, has_state, sctx, screen, touched, picker,
                   bypass, dash_sel, shot, lret, pret>>
    /\ UNCHANGED notSession

PrimeAfterLogin ==
    /\ spc = "after_login"
    /\ IF lret = "False"
       THEN pret' = "False" /\ spc' = "finally"
       ELSE spc' = "confirm" /\ UNCHANGED pret
    /\ UNCHANGED <<stateFile, stateFile0, lstage, otps, dash_seen, shotres, confirm_nav, has_state, sctx, screen, touched, picker,
                   bypass, dash_sel, shot, lret>>
    /\ UNCHANGED notSession

\* The visit of INVENTORY_URL; its exceptions are caught and logged.
PrimeConfirm_FailureEndsPrime ==
    /\ spc = "confirm"
    /\ \E o \in Outcomes :
          /\ confirm_nav' = o
          /\ IF o = "ok" THEN spc' = "save" /\ UNCHANGED pret
             ELSE pret' = "False" /\ spc' = "finally"
    /\ UNCHANGED <<stateFile, stateFile0, lstage, otps, dash_seen, shotres, has_state, sctx, screen, touched, picker,
                   bypass, dash_sel, shot, lret>>
    /\ UNCHANGED notSession

PrimeConfirm ==
    /\ spc = "confirm"
    /\ \E o \in Outcomes : confirm_nav' = o
    /\ spc' = "save"
    /\ UNCHANGED <<stateFile, stateFile0, lstage, otps, dash_seen, shotres, has_state, sctx, screen, touched, picker,
                   bypass, dash_sel, shot, lret, pret>>
    /\ UNCHANGED notSession

\* ctx.storage_state(path=STORAGE_STATE): the state is fetched from the
\* browser and the file is opened for writing.
SaveOpen ==
    /\ spc = "save"
    /\ \E o \in Outcomes :
          IF o = "ok"
          THEN /\ stateFile' = StateOf(<<>>)
               /\ spc' = "save_head"
               /\ UNCHANGED pret
          ELSE PrimeRaises /\ UNCHANGED stateFile
    /\ UNCHANGED <<stateFile0, lstage, otps, dash_seen, shotres, confirm_nav, has_state, sctx, screen, touched, picker, bypass,
                   dash_sel, shot, lret>>
    /\ UNCHANGED notSession

\* The first part of the text reaches the file, or the write fails.
SaveWriteHead ==
    /\ spc = "save_head"
    /\ \E o \in {"ok", "error"} :
          IF o = "ok"
          THEN /\ stateFile' = StateOf(<<Blob(NewSession)[1]>>)
               /\ spc' = "save_tail"
               /\ UNCHANGED pret
          ELSE PrimeRaises /\ UNCHANGED stateFile
    /\ UNCHANGED <<stateFile0, lstage, otps, dash_seen, shotres, confirm_nav, has_state, sctx, screen, touched, picker, bypass,
                   dash_sel, shot, lret>>
    /\ UNCHANGED notSession

\* The rest of the text reaches the file, or the write fails.
SaveWriteTail ==
    /\ spc = "save_tail"
    /\ \E o \in {"ok", "error"} :
          IF o = "ok"
          THEN /\ stateFile' = StateOf(Blob(NewSession))
               /\ spc' = "return"
               /\ UNCHANGED pret
          ELSE PrimeRaises /\ UNCHANGED stateFile
    /\ UNCHANGED <<stateFile0, lstage, otps, dash_seen, shotres, confirm_nav, has_state, sctx, screen, touched, picker, bypass,
                   dash_sel, shot, lret>>
    /\ UNCHANGED notSession

\* return True
PrimeReturn ==
    /\ spc = "return"
    /\ pret' = "True"
    /\ spc' = "finally"
    /\ UNCHANGED <<stateFile, stateFile0, lstage, otps, dash_seen, shotres, confirm_nav, has_state, sctx, screen, touched, picker,
                   bypass, dash_sel, shot, lret>>
    /\ UNCHANGED notSession

\* finally: await ctx.close()
PrimeClose ==
    /\ spc = "finally"
    /\ sctx' = "closed"
    /\ spc' = "done"
    /\ UNCHANGED <<stateFile, stateFile0, lstage, otps, dash_seen, shotres, confirm_nav, has_state, screen, touched, picker,
                   bypass, dash_sel, shot, lret, pret>>
    /\ UNCHANGED notSession

NextSession ==
    \/ EnsureState
    \/ PrimeNewContext
    \/ PrimeNewPage
    \/ LoginGoto
    \/ LoginEntry
    \/ LoginEmail
    \/ LoginPassword
    \/ LoginRace
    \/ LoginOtp
    \/ LoginPicker
    \/ LoginBypassMarker
    \/ LoginDash
    \/ PrimeAfterLogin
    \/ PrimeConfirm
    \/ SaveOpen
    \/ SaveWriteHead
    \/ SaveWriteTail
    \/ PrimeReturn
    \/ PrimeClose

(***************************************************************************)
(* main (src/inf.py): one run.  The functions main calls are modelled by   *)
(* the ways they end; prime_master_session, when it returns True, has      *)
(* saved the new session in STORAGE_STATE.                                 *)
(***************************************************************************)
\* The non-empty lists scrape_inf_data returns in this model.
ScrapedLists == {<<ItemOf(RowA)>>, <<ItemOf(RowB), ItemOf(RowA)>>}

\* The contexts prime_master_session and scrape_inf_data of src/inf.py open.
NoContexts == [login |-> "none", scrape |-> "none"]

\* The context of prime_master_session when it has ended: new_context is
\* called before the try, everything after it inside the try whose finally
\* closes the context.
LoginContext(required, ended) ==
    IF ~required THEN {"none"}
    ELSE IF ended = "raised" THEN {"none", "closed"}
    ELSE {"closed"}

\* The context of scrape_inf_data when it has ended: new_context and
\* new_page are called before the try whose finally closes the context.
ScrapeContext(d) ==
    IF d = Raised THEN {"none", "open"} ELSE {"closed"}

RunIdle ==
    /\ rpc = "idle"
    /\ browser = "none"
    /\ vctx = "none"
    /\ login_required = TRUE
    /\ primed = "none"
    /\ logins = 0
    /\ scrapes = 0
    /\ data = Pending
    /\ report = "none"
    /\ todo = <<>>
    /\ calls = <<>>
    /\ rret = "running"
    /\ shots = <<>>
    /\ octx = NoContexts

InitRun ==
    /\ rpc = "launch"
    /\ browser = "none"
    /\ vctx = "none"
    /\ login_required = TRUE
    /\ primed = "none"
    /\ logins = 0
    /\ scrapes = 0
    /\ data = Pending
    /\ report = "none"
    /\ todo = <<>>
    /\ calls = <<>>
    /\ rret = "running"
    /\ shots = <<>>
    /\ octx = NoContexts

\* An exception leaves main: nothing of what follows runs.
RunRaises ==
    /\ rret' = "raised"
    /\ rpc' = "done"

\* playwright = await async_playwright().start(); browser = await ...launch()
RunLaunch ==
    /\ rpc = "launch"
    /\ \E o \in Outcomes :
          IF o = "ok"
          THEN browser' = "open" /\ rpc' = "ensure" /\ UNCHANGED rret
          ELSE RunRaises /\ UNCHANGED browser
    /\ UNCHANGED <<vctx, login_required, primed, logins, scrapes, data, report,
                   todo, calls, stateFile, has_state, shots, octx>>
    /\ UNCHANGED notRun

\* login_required = True; if ensure_storage_state(): ...
RunEnsure ==
    /\ rpc = "ensure"
    /\ login_required' = TRUE
    /\ has_state' = ensure_storage_state(stateFile)
    /\ rpc' = IF IsTruthy(ensure_storage_state(stateFile)) THEN "v_context" ELSE "login"
    /\ UNCHANGED <<browser, vctx, primed, logins, scrapes, data, report, todo,
                   calls, rret, stateFile, shots, octx>>
    /\ UNCHANGED notRun

\* ctx = await browser.new_context(storage_state=json.load(open(STORAGE_STATE)))
RunValidateContext ==
    /\ rpc = "v_context"
    /\ \E o \in Outcomes :
          IF o = "ok" /\ JsonLoad(stateFile.data).ok
          THEN vctx' = "open" /\ rpc' = "v_page" /\ UNCHANGED rret
          ELSE RunRaises /\ UNCHANGED vctx
    /\ UNCHANGED <<browser, login_required, primed, logins, scrapes, data, report,
                   todo, calls, stateFile, has_state, shots, octx>>
    /\ UNCHANGED notRun

\* pg = await ctx.new_page()
RunValidatePage ==
    /\ rpc = "v_page"
    /\ \E o \in Outcomes :
          IF o = "ok" THEN rpc' = "v_check" /\ UNCHANGED rret
          ELSE RunRaises
    /\ UNCHANGED <<browser, vctx, login_required, primed, logins, scrapes, data,
                   report, todo, calls, stateFile, has_state, shots, octx>>
    /\ UNCHANGED notRun

\* login_required = await check_if_login_needed(pg, test), which returns
\* True or False and never raises.
RunValidate ==
    /\ rpc = "v_check"
    /\ \E b \in BOOLEAN : login_required' = b
    /\ rpc' = "v_close"
    /\ UNCHANGED <<browser, vctx, primed, logins, scrapes, data, report, todo,
                   calls, rret, stateFile, has_state, shots, octx>>
    /\ UNCHANGED notRun

\* await ctx.close()
RunValidateClose ==
    /\ rpc = "v_close"
    /\ vctx' = "closed"
    /\ rpc' = "login"
    /\ UNCHANGED <<browser, login_required, primed, logins, scrapes, data, report,
                   todo, calls, rret, stateFile, has_state, shots, octx>>
    /\ UNCHANGED notRun

\* perform_login calls _save_screenshot on each path that returns False
\* (inf.py:162, 171), scrape_inf_data in the except that returns None
\* (inf.py:303): the screenshot of attempt n of the operation op.
Shot(op, n) == [op |-> op, attempt |-> n]

\* What an interrupted save of prime_master_session leaves in STORAGE_STATE.
AfterFailedSave(f) == {f, StateOf(<<>>), StateOf(<<Blob(NewSession)[1]>>)}

\* if login_required: if not await prime_master_session(): await
\* browser.close(); await playwright.stop(); return
RunLogin_GoesOnAfterFailure ==
    /\ rpc = "login"
    /\ IF login_required
       THEN /\ logins' = logins + 1
            /\ \E o \in {"True", "False", "raised"} :
                  /\ primed' = o
                  /\ CASE o = "True" ->
                            /\ stateFile' = StateOf(Blob(NewSession))
                            /\ rpc' = "storage"
                            /\ UNCHANGED <<browser, rret>>
                       [] o = "False" ->
                            /\ rpc' = "storage"
                            /\ UNCHANGED <<stateFile, browser, rret>>
                       [] OTHER ->
                            /\ stateFile' \in AfterFailedSave(stateFile)
                            /\ RunRaises
                            /\ UNCHANGED browser
       ELSE /\ rpc' = "storage"
            /\ UNCHANGED <<logins, primed, stateFile, browser, rret>>
    /\ shots' = IF login_required /\ primed' = "False"
                THEN Append(shots, Shot("login", logins')) ELSE shots
    /\ octx' \in {[octx EXCEPT !.login = c] : c \in LoginContext(login_required, primed')}
    /\ UNCHANGED <<vctx, login_required, scrapes, data, report, todo, calls, has_state>>
    /\ UNCHANGED notRun

RunLogin_WhateverTheValidationSaid ==
    /\ rpc = "login"
    /\ IF TRUE
       THEN /\ logins' = logins + 1
            /\ \E o \in {"True", "False", "raised"} :
                  /\ primed' = o
                  /\ CASE o = "True" ->
                            /\ stateFile' = StateOf(Blob(NewSession))
                            /\ rpc' = "storage"
                            /\ UNCHANGED <<browser, rret>>
                       [] o = "False" ->
                            /\ browser' = "closed"
                            /\ rret' = "returned"
                            /\ rpc' = "done"
                            /\ UNCHANGED stateFile
                       [] OTHER ->
                            /\ stateFile' \in AfterFailedSave(stateFile)
                            /\ RunRaises
                            /\ UNCHANGED browser
       ELSE /\ rpc' = "storage"
            /\ UNCHANGED <<logins, primed, stateFile, browser, rret>>
    /\ shots' = IF primed' = "False"
                THEN Append(shots, Shot("login", logins')) ELSE shots
    /\ octx' \in {[octx EXCEPT !.login = c] : c \in LoginContext(TRUE, primed')}
    /\ UNCHANGED <<vctx, login_required, scrapes, data, report, todo, calls, has_state>>
    /\ UNCHANGED notRun

RunLogin ==
    /\ rpc = "login"
    /\ IF login_required
       THEN /\ logins' = logins + 1
            /\ \E o \in {"True", "False", "raised"} :
                  /\ primed' = o
                  /\ CASE o = "True" ->
                            /\ stateFile' = StateOf(Blob(NewSession))
                            /\ rpc' = "storage"
                            /\ UNCHANGED <<browser, rret>>
                       [] o = "False" ->
                            /\ browser' = "closed"
                            /\ rret' = "returned"
                            /\ rpc' = "done"
                            /\ UNCHANGED stateFile
                       [] OTHER ->
                            /\ stateFile' \in AfterFailedSave(stateFile)
                            /\ RunRaises
                            /\ UNCHANGED browser
       ELSE /\ rpc' = "storage"
            /\ UNCHANGED <<logins, primed, stateFile, browser, rret>>
    /\ shots' = IF login_required /\ primed' = "False"
                THEN Append(shots, Shot("login", logins')) ELSE shots
    /\ octx' \in {[octx EXCEPT !.login = c] : c \in LoginContext(login_required, primed')}
    /\ UNCHANGED <<vctx, login_required, scrapes, data, report, todo, calls, has_state>>
    /\ UNCHANGED notRun

\* storage = json.load(open(STORAGE_STATE))
RunLoadStorage ==
    /\ rpc = "storage"
    /\ IF stateFile.exists /\ JsonLoad(stateFile.data).ok
       THEN rpc' = "scrape" /\ UNCHANGED rret
       ELSE RunRaises
    /\ UNCHANGED <<browser, vctx, login_required, primed, logins, scrapes, data,
                   report, todo, calls, stateFile, has_state, shots, octx>>
    /\ UNCHANGED notRun

RunScrape_NewRoundAfterFailures ==
    /\ rpc = "scrape"
    /\ scrapes' = (scrapes % 2) + 1
    /\ \/ /\ \E d \in {Failure, ItemList(<<>>)} \cup {ItemList(l) : l \in ScrapedLists} :
                /\ data' = d
                /\ rpc' = IF d = Failure THEN "scrape" ELSE "dispatch"
          /\ UNCHANGED rret
       \/ /\ data' = Raised
          /\ RunRaises
    /\ shots' = IF data' = Failure /\ scrapes = 0
                THEN Append(shots, Shot("scrape", 1)) ELSE shots
    /\ octx' \in {[octx EXCEPT !.scrape = c] : c \in ScrapeContext(data')}
    /\ UNCHANGED <<browser, vctx, login_required, primed, logins, report, todo,
                   calls, stateFile, has_state>>
    /\ UNCHANGED notRun

\* data = await scrape_inf_data(browser, TARGET_STORE, storage, ...): None,
\* [], a list of items, or an exception of new_context or new_page.
RunScrape ==
    /\ rpc = "scrape"
    /\ scrapes' = scrapes + 1
    /\ \/ /\ \E d \in {Failure, ItemList(<<>>)} \cup {ItemList(l) : l \in ScrapedLists} :
                data' = d
          /\ rpc' = "dispatch"
          /\ UNCHANGED rret
       \/ /\ data' = Raised
          /\ RunRaises
    /\ shots' = IF data' = Failure
                THEN Append(shots, Shot("scrape", scrapes')) ELSE shots
    /\ octx' \in {[octx EXCEPT !.scrape = c] : c \in ScrapeContext(data')}
    /\ UNCHANGED <<browser, vctx, login_required, primed, logins, report, todo,
                   calls, stateFile, has_state>>
    /\ UNCHANGED notRun

\* if data is None: error; elif not data: info; else: info, log and notify
Report_EmptyIsError(d) ==
    IF d = Failure \/ d.items = <<>> THEN "error" ELSE "items"

Report(d) ==
    IF d = Failure THEN "error"
    ELSE IF d.items = <<>> THEN "info"
    ELSE "items"

\* The collaborators main calls for `data`, in order.
Downstream_UnlessNone(d) ==
    IF d = Failure THEN <<>> ELSE <<"log_inf_results", "post_inf_to_chat">>

Downstream(d) ==
    IF d = Failure THEN <<>>
    ELSE IF d.items = <<>> THEN <<>>
    ELSE <<"log_inf_results", "post_inf_to_chat">>

RunDispatch ==
    /\ rpc = "dispatch"
    /\ report' = Report(data)
    /\ todo' = Downstream(data)
    /\ rpc' = "calls"
    /\ UNCHANGED <<browser, vctx, login_required, primed, logins, scrapes, data,
                   calls, rret, stateFile, has_state, shots, octx>>
    /\ UNCHANGED notRun

\* await log_inf_results(data); await post_inf_to_chat(data): neither raises
\* for the items scrape_inf_data returns.
RunCall ==
    /\ rpc = "calls"
    /\ todo # <<>>
    /\ calls' = Append(calls, Head(todo))
    /\ todo' = Tail(todo)
    /\ UNCHANGED <<rpc, browser, vctx, login_required, primed, logins, scrapes,
                   data, report, rret, stateFile, has_state, shots, octx>>
    /\ UNCHANGED notRun

\* await browser.close(); await playwright.stop()
RunShutdown ==
    /\ rpc = "calls"
    /\ todo = <<>>
    /\ browser' = "closed"
    /\ rret' = "returned"
    /\ rpc' = "done"
    /\ UNCHANGED <<vctx, login_required, primed, logins, scrapes, data, report,
                   todo, calls, stateFile, has_state, shots, octx>>
    /\ UNCHANGED notRun

NextRun ==
    \/ RunLaunch
    \/ RunEnsure
    \/ RunValidateContext
    \/ RunValidatePage
    \/ RunValidate
    \/ RunValidateClose
    \/ RunLogin
    \/ RunLoadStorage
    \/ RunScrape
    \/ RunDispatch
    \/ RunCall
    \/ RunShutdown

(***************************************************************************)
(* post_inf_to_chat (src/notifications.py) and                             *)
(* create_investigation_from_scrape (src/database.py).                     *)
(***************************************************************************)
BatchSize == 1      \* items per chat message (BATCH_SIZE, scaled down)

\* Items as the chat post reads them: `complete` says that the item has the
\* six keys scrape_inf_data gives it; `aisle` is int(aisle_number), 0 when
\* that raises; `stock` is it.get("stock_on_hand") ("zero" for 0, "some" for
\* another quantity, "none" without the key); `promo` says that
\* it.get("promo_location") is truthy.
ChatItem(sku, complete, aisle, stock, promo) ==
    [sku |-> sku, complete |-> complete, aisle |-> aisle,
     stock |-> stock, promo |-> promo]

ChatItems ==
    {ChatItem("A", TRUE, 1, "none", FALSE), ChatItem("B", TRUE, 0, "zero", TRUE),
     ChatItem("C", TRUE, 2, "some", TRUE), ChatItem("SKU-99", FALSE, 0, "none", FALSE)}

\* `it in lst` of Python: some element of the list equals it.
InList(it, lst) == \E k \in DOMAIN lst : lst[k] = it

\* sorted(items, key=_aisle_sort_key): stable, items without aisle last.
SortByAisle(its) ==
    SelectSeq(its, LAMBDA it : it.aisle = 1)
        \o SelectSeq(its, LAMBDA it : it.aisle = 2)
        \o SelectSeq(its, LAMBDA it : it.aisle = 0)

\* zero_stock, extra_locs and others of the sorted items.
ZeroStock(its) == SelectSeq(its, LAMBDA it : it.stock = "zero")

ExtraLocs(its) ==
    SelectSeq(its, LAMBDA it : ~InList(it, ZeroStock(its)) /\ it.promo)

Others(its) ==
    SelectSeq(its, LAMBDA it : ~InList(it, ZeroStock(its))
                               /\ ~InList(it, ExtraLocs(its)))

Categories_PromoAlsoWhenZero(its, lookup) ==
    IF lookup
    THEN <<ZeroStock(its), SelectSeq(its, LAMBDA it : it.promo), Others(its)>>
    ELSE <<its>>

\* The categories, in the order they are posted.
Categories(its, lookup) ==
    IF lookup
    THEN <<ZeroStock(its), ExtraLocs(its), Others(its)>>
    ELSE <<its>>

\* [cat_items[i : i + BATCH_SIZE] for i in range(0, len(cat_items), BATCH_SIZE)]
RECURSIVE Chunks(_, _)
Chunks(its, n) ==
    IF its = <<>> THEN <<>>
    ELSE IF Len(its) <= n THEN <<its>>
    ELSE <<SubSeq(its, 1, n)>> \o Chunks(SubSeq(its, n + 1, Len(its)), n)

\* The batches of one category; none for an empty category.
BatchesOf(cat, single) ==
    IF cat = <<>> THEN <<>>
    ELSE IF single THEN <<SubSeq(cat, 1, IF Len(cat) <= BatchSize THEN Len(cat) ELSE BatchSize)>>
    ELSE Chunks(cat, BatchSize)

RECURSIVE AllBatches(_, _, _)
AllBatches(cats, single, k) ==
    IF k > Len(cats) THEN <<>>
    ELSE BatchesOf(cats[k], single) \o AllBatches(cats, single, k + 1)

ChatIdle ==
    /\ cpc = "idle"
    /\ citems = <<>>
    /\ webhook = FALSE
    /\ stock_lookup = FALSE
    /\ single_card = FALSE
    /\ batches = <<>>
    /\ sent = <<>>
    /\ cret = "pending"

DbIdle ==
    /\ dpc = "idle"
    /\ dclient = FALSE
    /\ dlog = "none"
    /\ dret = "pending"
    /\ dday = 1
    /\ dcalls = 0
    /\ dinv = 0
    /\ investigations = <<>>
    /\ products = {}
    /\ dhist = <<>>

NotifyIdle == ChatIdle /\ DbIdle

InitChat ==
    /\ cpc = "start"
    /\ citems \in SeqsUpTo(ChatItems, MaxItems)
    /\ webhook \in BOOLEAN
    /\ stock_lookup \in BOOLEAN
    /\ single_card \in BOOLEAN
    /\ batches = <<>>
    /\ sent = <<>>
    /\ cret = "pending"

InitDb ==
    /\ dpc = "start"
    /\ dclient \in BOOLEAN
    /\ dlog = "none"
    /\ dret = "pending"
    /\ dday = 1
    /\ dcalls = 1
    /\ dinv = 0
    /\ investigations = <<>>
    /\ products = {}
    /\ dhist = <<>>

\* The days the calls fall on, and the lists of items of the daily runs.
Days == {1, 2}
DailyLists == {<<>>, <<ChatItem("A", TRUE, 1, "none", FALSE)>>,
     <<ChatItem("B", TRUE, 0, "zero", TRUE), ChatItem("A", TRUE, 1, "none", FALSE)>>}


\* The two early returns, the sort, the categories and their batches.
ChatStart ==
    /\ cpc = "start"
    /\ IF ~webhook \/ citems = <<>>
       THEN /\ cret' = "returned"
            /\ cpc' = "done"
            /\ UNCHANGED batches
       ELSE /\ batches' = AllBatches(Categories(SortByAisle(citems), stock_lookup),
                                     single_card, 1)
            /\ cpc' = "compose"
            /\ UNCHANGED cret
    /\ UNCHANGED <<citems, webhook, stock_lookup, single_card, sent>>
    /\ UNCHANGED <<dbVars, notNotify>>

\* The widgets and the payload of the next batch are built outside any try:
\* it["product_name"] and the like raise KeyError for an item without the key.
ChatCompose ==
    /\ cpc = "compose"
    /\ IF batches = <<>>
       THEN cret' = "returned" /\ cpc' = "done"
       ELSE IF \E k \in DOMAIN Head(batches) : ~Head(batches)[k].complete
       THEN cret' = "raised" /\ cpc' = "done"
       ELSE cpc' = "send" /\ UNCHANGED cret
    /\ UNCHANGED <<citems, webhook, stock_lookup, single_card, batches, sent>>
    /\ UNCHANGED <<dbVars, notNotify>>

\* try: session.post(...): status 200, another status, or an exception that
\* is caught and logged; the loop goes on with the next batch.
ChatSend ==
    /\ cpc = "send"
    /\ \E o \in {"200", "status", "exception"} :
          sent' = Append(sent, [items |-> Head(batches), status |-> o])
    /\ batches' = Tail(batches)
    /\ cpc' = "compose"
    /\ UNCHANGED <<citems, webhook, stock_lookup, single_card, cret>>
    /\ UNCHANGED <<dbVars, notNotify>>

\* if not supabase_client: warning, return
DbStart ==
    /\ dpc = "start"
    /\ IF dclient
       THEN dpc' = "find" /\ UNCHANGED <<dlog, dret>>
       ELSE dpc' = "done" /\ dlog' = "warning" /\ dret' = "returned"
    /\ UNCHANGED <<dclient, dday, dcalls, dinv, investigations, products, dhist>>
    /\ UNCHANGED <<chatVars, notNotify>>

\* except Exception: error logged, nothing raised.
DbFailed ==
    /\ dlog' = "error"
    /\ dret' = "returned"
    /\ dpc' = "done"

\* investigation_name: "INF Scrape - " and the local date of the call.
InvestigationName(day) == <<"INF Scrape", day>>

\* table("investigations").select("id").eq("name", investigation_name): the
\* ids of the records with that name; the id of a record is its position.
Existing_NeverFound(invs, name) == {}

Existing(invs, name) == {k \in DOMAIN invs : invs[k] = name}

\* After the investigation is known the rows are built with item.get; without
\* rows: warning, return.
DbRows ==
    IF citems = <<>>
    THEN dlog' = "warning" /\ dret' = "returned" /\ dpc' = "done"
    ELSE dpc' = "upsert" /\ UNCHANGED <<dlog, dret>>

\* _get_or_create_investigation, run as one unit in the executor: the select
\* with maybe_single() gives the id of the one record of the day or raises
\* (a failed request, more than one record); without a record one is
\* inserted, and an insert that answers without data raises.
DbFind ==
    /\ dpc = "find"
    /\ LET name == InvestigationName(dday)
           found == Existing(investigations, name)
       IN \E o \in {"ok", "error", "nodata"} :
             IF o = "error" \/ Cardinality(found) > 1
             THEN DbFailed /\ UNCHANGED <<investigations, dinv>>
             ELSE IF found # {}
             THEN /\ dinv' = CHOOSE k \in found : TRUE
                  /\ DbRows
                  /\ UNCHANGED investigations
             ELSE /\ investigations' = Append(investigations, name)
                  /\ IF o = "nodata"
                     THEN DbFailed /\ UNCHANGED dinv
                     ELSE dinv' = Len(investigations) + 1 /\ DbRows
    /\ UNCHANGED <<dclient, dday, dcalls, products, dhist>>
    /\ UNCHANGED <<chatVars, notNotify>>

\* The upsert of the rows on (investigation_id, sku); no data in the
\* response raises inside the try.
DbUpsert ==
    /\ dpc = "upsert"
    /\ \E o \in {"ok", "error"} :
          IF o = "error" THEN DbFailed /\ UNCHANGED <<products, dhist>>
          ELSE /\ products' = products \cup
                     {[investigation_id |-> dinv, sku |-> citems[k].sku] : k \in DOMAIN citems}
               /\ dhist' = Append(dhist, [day |-> dday, id |-> dinv])
               /\ dlog' = "success" /\ dret' = "returned" /\ dpc' = "done"
    /\ UNCHANGED <<dclient, dday, dcalls, dinv, investigations>>
    /\ UNCHANGED <<chatVars, notNotify>>

\* The next run of the program calls create_investigation_from_scrape with
\* the items it scraped, on the same day or on the next one.
DbAgain ==
    /\ dpc = "done"
    /\ dcalls < MaxRuns
    /\ dcalls' = dcalls + 1
    /\ dday' \in {dday, dday + 1} \cap Days
    /\ citems' \in DailyLists
    /\ dpc' = "start"
    /\ dlog' = "none"
    /\ dret' = "pending"
    /\ dinv' = 0
    /\ UNCHANGED <<dclient, investigations, products, dhist>>
    /\ UNCHANGED <<cpc, webhook, stock_lookup, single_card, batches, sent, cret>>
    /\ UNCHANGED notNotify

\* The first call of a day's runs, on a table that is empty or holds the
\* record of day 1 already.
InitDaily ==
    /\ dpc = "start"
    /\ dclient \in BOOLEAN
    /\ dlog = "none"
    /\ dret = "pending"
    /\ dday = 1
    /\ dcalls = 1
    /\ dinv = 0
    /\ investigations \in {<<>>, <<InvestigationName(1)>>}
    /\ products = {}
    /\ dhist = <<>>
    /\ cpc = "idle"
    /\ citems \in DailyLists
    /\ webhook = FALSE
    /\ stock_lookup = FALSE
    /\ single_card = FALSE
    /\ batches = <<>>
    /\ sent = <<>>
    /\ cret = "pending"

NextNotify ==
    \/ ChatStart
    \/ ChatCompose
    \/ ChatSend
    \/ DbStart
    \/ DbFind
    \/ DbUpsert

(***************************************************************************)
(* enrich_items_with_stock_data (src/stock_checker.py).  A dict is the set *)
(* of its <<key, value>> pairs; every value is a sequence of strings.      *)
(***************************************************************************)
ExtractionFields ==
    {"sku", "product_name", "image_url", "inf_units", "orders_impacted", "inf_pct"}
StockFields == {"stock_on_hand", "stock_unit", "stock_last_updated"}
LocationFields == {"std_location", "promo_location"}

Keys(d) == {p[1] : p \in d}
Get(d, k) == (CHOOSE p \in d : p[1] = k)[2]

\* {**a, **b}: the pairs of b, and those of a whose key b does not have.
MergeDicts(a, b) == b \cup {p \in a : p[1] \notin Keys(b)}

\* An item as the scraper extracts it, for the row of SKU s.
ScrapedDict(s) ==
    {<<"sku", <<s>>>>} \cup {<<f, <<f, s>>>> : f \in ExtractionFields \ {"sku"}}

EnrichSkus == {"A", "B"}
EnrichLists == SeqsUpTo({ScrapedDict(s) : s \in EnrichSkus}, MaxItems)

\* How one HTTP exchange of _fetch_json ends: a 2xx answer with a JSON body,
\* a 2xx answer whose body is empty or null, a 404, any other failure.
HttpEnds == {"json", "empty", "404", "error"}

\* _fetch_json: r.json() of a 2xx answer; raise_for_status raises HTTPError
\* otherwise, and `if e.response and ...` is false for it (a Response with an
\* error status is falsy), so the 404 is re-raised like the others.
FetchJson(o) ==
    CASE o = "json" -> [raises |-> FALSE, found |-> TRUE]
      [] o = "empty" -> [raises |-> FALSE, found |-> FALSE]
      [] OTHER -> [raises |-> TRUE, found |-> FALSE]

\* The exchanges of one lookup: product, stock record, price integrity.
ApiRun(p, s, l) == [product |-> p, stock |-> s, pi |-> l]
ApiRuns ==
    {ApiRun("json", "json", "json"), ApiRun("json", "json", "empty"),
     ApiRun("json", "empty", "json"), ApiRun("json", "json", "error"),
     ApiRun("json", "404", "json"), ApiRun("empty", "json", "json"),
     ApiRun("error", "json", "json")}

\* The lookup returned {} by its `except Exception` or for an unknown product.
LookupFailed(run) ==
    \/ FetchJson(run.product).raises \/ ~FetchJson(run.product).found
    \/ FetchJson(run.stock).raises
    \/ FetchJson(run.pi).raises

\* _fetch_morrisons_data_for_sku(sku) when its exchanges end as in `run`.
fetch_morrisons_data_for_sku(sku, run) ==
    IF LookupFailed(run) THEN {}
    ELSE (IF FetchJson(run.stock).found
          THEN {<<f, <<f, sku>>>> : f \in StockFields} ELSE {})
         \cup
         (IF FetchJson(run.pi).found
          THEN {<<f, <<f, sku>>>> : f \in LocationFields} ELSE {})

NotRun == [done |-> FALSE, run |-> ApiRun("json", "json", "json"), data |-> {}]

\* await asyncio.gather(*tasks): the results in the order of the tasks,
\* whatever the order they completed in.
Gathered_AsCompleted(res, order) == [k \in DOMAIN order |-> res[order[k]].data]

Gathered(res, order) == [i \in DOMAIN res |-> res[i].data]

EnrichIdle ==
    /\ epc = "idle"
    /\ ekeys = FALSE
    /\ eitems = <<>>
    /\ eresults = <<>>
    /\ eorder = <<>>
    /\ enriched = <<>>

InitEnrich ==
    /\ epc = "start"
    /\ ekeys \in BOOLEAN
    /\ eitems \in EnrichLists
    /\ eresults = <<>>
    /\ eorder = <<>>
    /\ enriched = <<>>

\* if not all([MORRISONS_API_KEY, MORRISONS_LOCATION_ID]): return items;
\* else one task per item is created.
EnrichStart ==
    /\ epc = "start"
    /\ IF ekeys
       THEN /\ eresults' = [i \in DOMAIN eitems |-> NotRun]
            /\ epc' = "gather"
            /\ UNCHANGED enriched
       ELSE /\ enriched' = eitems
            /\ epc' = "done"
            /\ UNCHANGED eresults
    /\ UNCHANGED <<ekeys, eitems, eorder>>
    /\ UNCHANGED notEnrich

\* The thread of task i ends: _fetch_morrisons_data_for_sku(item["sku"]).
EnrichComplete(i) ==
    /\ epc = "gather"
    /\ ~eresults[i].done
    /\ \E run \in ApiRuns :
          eresults' = [eresults EXCEPT ![i] =
              [done |-> TRUE, run |-> run,
               data |-> fetch_morrisons_data_for_sku(Get(eitems[i], "sku")[1], run)]]
    /\ eorder' = Append(eorder, i)
    /\ UNCHANGED <<epc, ekeys, eitems, enriched>>
    /\ UNCHANGED notEnrich

\* gather has every result: [{**original_item, **morrisons_data} for ... in
\* zip(items, morrisons_results)]
EnrichMerge ==
    /\ epc = "gather"
    /\ \A i \in DOMAIN eresults : eresults[i].done
    /\ enriched' = [i \in DOMAIN eitems |->
                       MergeDicts(eitems[i], Gathered(eresults, eorder)[i])]
    /\ epc' = "done"
    /\ UNCHANGED <<ekeys, eitems, eresults, eorder>>
    /\ UNCHANGED notEnrich

NextEnrich ==
    \/ EnrichStart
    \/ \E i \in 1..MaxItems : i \in DOMAIN eresults /\ EnrichComplete(i)
    \/ EnrichMerge

(***************************************************************************)
(* get_investigation_projects (src/database.py) against the table          *)
(* "projects".                                                             *)
(***************************************************************************)
\* The argument `organization`: None, or a string that may be empty.
NoOrg == [set |-> FALSE, name |-> ""]
Org(n) == [set |-> TRUE, name |-> n]
Organizations == {NoOrg, Org(""), Org("OrgX"), Org("OrgY")}

\* `if organization:` is true for a string that is not empty.
OrgGiven(org) == org.set /\ org.name # ""

InvestigationIds == {1, 2}

ProjectRow(k, inv, org) == [id |-> k, investigation_id |-> inv, organization |-> org]
ProjectRows ==
    {ProjectRow(1, 1, "OrgX"), ProjectRow(2, 1, "OrgY"),
     ProjectRow(3, 2, "OrgX"), ProjectRow(4, 1, "")}

\* .eq(column, value)
EqId(n) == [col |-> "investigation_id", num |-> n, str |-> ""]
EqOrg(s) == [col |-> "organization", num |-> 0, str |-> s]

Matches(row, f) ==
    IF f.col = "investigation_id" THEN row.investigation_id = f.num
    ELSE row.organization = f.str

\* query.execute(): the rows every filter of the query lets through.
Execute(tbl, q) ==
    {row \in tbl : \A k \in DOMAIN q : Matches(row, q[k])}

\* if organization: query = query.eq("organization", organization)
WithOrganization_Ignored(q, org) == q

WithOrganization(q, org) ==
    IF OrgGiven(org) THEN Append(q, EqOrg(org.name)) ELSE q

ProjectsIdle ==
    /\ qpc = "idle"
    /\ qclient = FALSE
    /\ qid = 1
    /\ qorg = NoOrg
    /\ projects = {}
    /\ query = <<>>
    /\ executed = 0
    /\ qret = [kind |-> "pending", rows |-> {}]

InitProjects ==
    /\ qpc = "start"
    /\ qclient \in BOOLEAN
    /\ qid \in InvestigationIds
    /\ qorg \in Organizations
    /\ projects \in SUBSET ProjectRows
    /\ query = <<>>
    /\ executed = 0
    /\ qret = [kind |-> "pending", rows |-> {}]

\* if not supabase_client: return []
ProjectsStart ==
    /\ qpc = "start"
    /\ IF qclient
       THEN qpc' = "fetch" /\ UNCHANGED qret
       ELSE qpc' = "done" /\ qret' = [kind |-> "list", rows |-> {}]
    /\ UNCHANGED <<qclient, qid, qorg, projects, query, executed>>
    /\ UNCHANGED notProjects

\* result = await loop.run_in_executor(None, _fetch); return result.data or
\* []: the query is built and executed; an exception of execute() leaves
\* the function.
ProjectsFetch ==
    /\ qpc = "fetch"
    /\ query' = WithOrganization(<<EqId(qid)>>, qorg)
    /\ executed' = executed + 1
    /\ \E o \in {"ok", "error"} :
          qret' = IF o = "ok"
                  THEN [kind |-> "list", rows |-> Execute(projects, query')]
                  ELSE [kind |-> "raised", rows |-> {}]
    /\ qpc' = "done"
    /\ UNCHANGED <<qclient, qid, qorg, projects>>
    /\ UNCHANGED notProjects

NextProjects ==
    \/ ProjectsStart
    \/ ProjectsFetch

\* The subsystems that follow the notifications, at rest.
\* The filter is in its first call.
ReplayIdle ==
    /\ fround = 1
    /\ ffirst = [ferr |-> "none", fline |-> 0]

\* filter_items_posted_today is called again with the list it returned.
FilterAgain ==
    /\ fpc = "done"
    /\ fround = 1
    /\ fround' = 2
    /\ ffirst' = [ferr |-> ferr, fline |-> fline]
    /\ fitems' = filtered.items
    /\ fpc' = "start"
    /\ today' = 0
    /\ posted_skus' = {}
    /\ fline' = 0
    /\ ferr' = "none"
    /\ filtered' = Pending
    /\ UNCHANGED notReplay

NextFilterTwice ==
    \/ FilterStart
    \/ FilterAcquire
    \/ FilterOpen
    \/ FilterReadLine
    \/ FilterReturn
    \/ FilterAgain

(***************************************************************************)
(* ensure_log_history_from_artifact (src/artifact_utils.py), called by     *)
(* several tasks of one process.  A task runs until it awaits: the two     *)
(* tests and the taking of a free lock are one step, the download is       *)
(* awaited, and the write of the file, the finally and the release of the  *)
(* lock are one step again.                                                *)
(***************************************************************************)
ArtifactIdle ==
    /\ apc = [c \in Calls |-> "idle"]
    /\ artifact_checked = FALSE
    /\ artifact_lock = 0
    /\ sync_enabled = FALSE
    /\ saw_log = [c \in Calls |-> "none"]
    /\ downloaded = <<>>
    /\ aret = [c \in Calls |-> "pending"]

\* The run logs the process can start with: none, an empty file, an entry.
LocalLogs ==
    {NoFile, FileOf(<<>>),
     FileOf(<<StoredPiece(EntryLine(Stamp(2, "00:00:00"), <<ItemOf(RowB)>>))>>)}

\* What 'inf_items.jsonl' of the artifact can hold: nothing, or the history
\* of an earlier run.
ArtifactLogs ==
    {<<>>, <<StoredPiece(EntryLine(Stamp(1, "23:59:59"), <<ItemOf(RowA)>>))>>}

InitArtifact ==
    /\ apc = [c \in Calls |-> "start"]
    /\ artifact_checked = FALSE
    /\ artifact_lock = 0
    /\ sync_enabled \in BOOLEAN
    /\ saw_log = [c \in Calls |-> "none"]
    /\ downloaded = <<>>
    /\ aret = [c \in Calls |-> "pending"]
    /\ logDir = TRUE
    /\ logFile \in LocalLogs
    /\ log_lock = Free
    /\ clock = [day |-> 2, hms |-> "12:00:00"]
    /\ lpc = [c \in Calls |-> "lock"]
    /\ ldata \in [Calls -> LogBatches]

\* os.path.exists(JSON_LOG_FILE) and os.path.getsize(JSON_LOG_FILE) > 0
HasHistory(f) == f.exists /\ f.data # <<>>

\* return
AReturn(c) ==
    /\ apc' = [apc EXCEPT ![c] = "done"]
    /\ aret' = [aret EXCEPT ![c] = "returned"]

\* await _download_log_history(), entered with the lock held.
ABeginDownload(c) ==
    /\ artifact_lock' = c
    /\ downloaded' = Append(downloaded, c)
    /\ apc' = [apc EXCEPT ![c] = "download"]
    /\ UNCHANGED <<artifact_checked, aret>>

\* async with _artifact_lock: if _artifact_checked: return
AfterLock_NoSecondTest(c) == ABeginDownload(c)

AfterLock(c) ==
    IF artifact_checked
    THEN AReturn(c) /\ UNCHANGED <<artifact_checked, artifact_lock, downloaded>>
    ELSE ABeginDownload(c)

\* if _artifact_checked: return; if not ENABLE_ARTIFACT_LOG_SYNC: ...;
\* if the log exists and is not empty: ...; async with _artifact_lock:
AStart(c) ==
    /\ apc[c] = "start"
    /\ IF artifact_checked
       THEN /\ AReturn(c)
            /\ UNCHANGED <<artifact_checked, artifact_lock, saw_log, downloaded>>
       ELSE IF ~sync_enabled
       THEN /\ AReturn(c)
            /\ artifact_checked' = TRUE
            /\ UNCHANGED <<artifact_lock, saw_log, downloaded>>
       ELSE IF HasHistory(logFile)
       THEN /\ AReturn(c)
            /\ artifact_checked' = TRUE
            /\ saw_log' = [saw_log EXCEPT ![c] = "history"]
            /\ UNCHANGED <<artifact_lock, downloaded>>
       ELSE /\ saw_log' = [saw_log EXCEPT ![c] = "empty"]
            /\ IF artifact_lock = 0
               THEN AfterLock(c)
               ELSE /\ apc' = [apc EXCEPT ![c] = "lock"]
                    /\ UNCHANGED <<artifact_checked, artifact_lock, downloaded, aret>>
    /\ UNCHANGED sync_enabled
    /\ UNCHANGED logVars
    /\ UNCHANGED notArtifact

\* The lock is free again and this caller, which waited for it, takes it.
AAcquire(c) ==
    /\ apc[c] = "lock"
    /\ artifact_lock = 0
    /\ AfterLock(c)
    /\ UNCHANGED <<sync_enabled, saw_log>>
    /\ UNCHANGED logVars
    /\ UNCHANGED notArtifact

\* _download_log_history ends: it skipped the download (no configuration, no
\* artifact, a status other than 200, no log in the archive), or
\* _save_artifact_log wrote the log of the artifact over JSON_LOG_FILE
\* (open(JSON_LOG_FILE, "wb")), or an exception left it.  finally:
\* _artifact_checked = True; the lock is released.
ADownloadEnd(c) ==
    /\ apc[c] = "download"
    /\ \E o \in {"skipped", "saved", "raised"} :
          /\ IF o = "saved"
             THEN \E d \in ArtifactLogs : logFile' = FileOf(d)
             ELSE UNCHANGED logFile
          /\ aret' = [aret EXCEPT ![c] = IF o = "raised" THEN "raised" ELSE "returned"]
    /\ artifact_checked' = TRUE
    /\ artifact_lock' = 0
    /\ apc' = [apc EXCEPT ![c] = "done"]
    /\ UNCHANGED <<sync_enabled, saw_log, downloaded>>
    /\ UNCHANGED <<logDir, log_lock, clock, lpc, ldata>>
    /\ UNCHANGED notArtifact

\* The callers of ensure_log_history_from_artifact and of log_inf_results.
NextArtifact ==
    \E c \in Calls :
        \/ AStart(c)
        \/ AAcquire(c)
        \/ ADownloadEnd(c)
        \/ LogAcquire(c)
        \/ LogOpen(c)
        \/ LogWriteHead(c)
        \/ LogWriteTail(c)
        \/ LogRelease(c)

MoreIdle == EnrichIdle /\ ProjectsIdle /\ ReplayIdle /\ ArtifactIdle

(***************************************************************************)
(* The specifications.                                                     *)
(***************************************************************************)
\* One call of scrape_inf_data against a page that re-renders.
InitScrapeRun == InitScrape /\ ValidateIdle /\ LogIdle /\ FilterIdle /\ SessionIdle /\ RunIdle /\ NotifyIdle /\ MoreIdle

SpecScrape == InitScrapeRun /\ [][NextScrape]_vars

\* One call of check_if_login_needed.
InitValidateRun ==
    ScrapeIdle /\ fetch_yesterday = FALSE /\ ValidateIdle /\ LogIdle /\ FilterIdle /\ SessionIdle /\ RunIdle /\ NotifyIdle /\ MoreIdle

SpecValidate == InitValidateRun /\ [][NextValidate]_vars

\* Concurrent calls of log_inf_results in the running program.
InitLogRun ==
    ScrapeIdle /\ fetch_yesterday = FALSE /\ ValidateIdle /\ InitLog /\ FilterIdle /\ SessionIdle /\ RunIdle /\ NotifyIdle /\ MoreIdle

SpecLog == InitLogRun /\ [][NextLog]_vars

\* The same calls with the log file at a path of the caller's choice.
InitLogAnyDirRun ==
    ScrapeIdle /\ fetch_yesterday = FALSE /\ ValidateIdle /\ InitLogAnyDir /\ FilterIdle /\ SessionIdle /\ RunIdle /\ NotifyIdle /\ MoreIdle

SpecLogAnyDir == InitLogAnyDirRun /\ [][NextLog]_vars

\* One call of filter_items_posted_today on any stored run log.
InitLogStored ==
    /\ logDir = TRUE
    /\ logFile \in StoredFiles
    /\ log_lock = Free
    /\ clock = [day |-> 2, hms |-> "12:00:00"]
    /\ lpc = [c \in Calls |-> "done"]
    /\ ldata = [c \in Calls |-> <<>>]

InitFilterRun ==
    ScrapeIdle /\ fetch_yesterday = FALSE /\ ValidateIdle /\ InitLogStored /\ InitFilter /\ SessionIdle /\ RunIdle /\ NotifyIdle /\ MoreIdle

SpecFilter == InitFilterRun /\ [][NextFilter]_vars

\* Two calls of filter_items_posted_today, the second on the result of the
\* first, on the same stored run log.
InitFilterTwiceRun == InitFilterRun

SpecFilterTwice == InitFilterTwiceRun /\ [][NextFilterTwice]_vars

\* Concurrent calls of ensure_log_history_from_artifact and of
\* log_inf_results in one process.
InitArtifactRun ==
    ScrapeIdle /\ fetch_yesterday = FALSE /\ ValidateIdle /\ FilterIdle /\ SessionIdle
        /\ RunIdle /\ NotifyIdle /\ EnrichIdle /\ ProjectsIdle /\ ReplayIdle
        /\ InitArtifact

SpecArtifact == InitArtifactRun /\ [][NextArtifact]_vars

\* ensure_storage_state, prime_master_session with its perform_login, and
\* ensure_storage_state again, on any stored session file.
InitSessionRun ==
    ScrapeIdle /\ fetch_yesterday = FALSE /\ ValidateIdle /\ LogIdle /\ FilterIdle
        /\ InitSession /\ RunIdle /\ NotifyIdle /\ MoreIdle

SpecSession == InitSessionRun /\ [][NextSession]_vars

\* One run of main on any stored session file.
InitRunStored ==
    /\ stateFile \in StoredStates
    /\ stateFile0 = stateFile
    /\ has_state = "pending"
    /\ spc = "idle"
    /\ sctx = "none"
    /\ screen = "none"
    /\ touched = {}
    /\ picker = FALSE
    /\ bypass = [nav |-> "none", marker |-> "none"]
    /\ dash_sel = "#content"
    /\ shot = "none"
    /\ lret = "pending"
    /\ lstage = "none"
    /\ otps = 0
    /\ dash_seen = "none"
    /\ shotres = "none"
    /\ confirm_nav = "none"
    /\ pret = "pending"

InitMainRun ==
    ScrapeIdle /\ fetch_yesterday = FALSE /\ ValidateIdle /\ LogIdle /\ FilterIdle
        /\ InitRunStored /\ InitRun /\ NotifyIdle /\ MoreIdle

SpecRun == InitMainRun /\ [][NextRun]_vars

\* The same run when no step of it is put off for ever: every step of main
\* is an await of an operation that completes, times out or raises.
InitFairRun == InitMainRun

SpecRunFair == InitFairRun /\ [][NextRun]_vars /\ WF_vars(NextRun)

\* The scrape and the login with the same assumption about their steps.
SpecScrapeFair == SpecScrape /\ WF_vars(NextScrape)

SpecSessionFair == SpecSession /\ WF_vars(NextSession)

\* One call of post_inf_to_chat and one of create_investigation_from_scrape
\* on the same items, under any configuration.
InitNotifyRun ==
    ScrapeIdle /\ fetch_yesterday = FALSE /\ ValidateIdle /\ LogIdle /\ FilterIdle
        /\ SessionIdle /\ RunIdle /\ InitChat /\ InitDb /\ MoreIdle

SpecNotify == InitNotifyRun /\ [][NextNotify]_vars

\* One call of enrich_items_with_stock_data on any list of scraped items.
InitEnrichRun ==
    ScrapeIdle /\ fetch_yesterday = FALSE /\ ValidateIdle /\ LogIdle /\ FilterIdle
        /\ SessionIdle /\ RunIdle /\ NotifyIdle /\ InitEnrich /\ ProjectsIdle
        /\ ReplayIdle /\ ArtifactIdle

SpecEnrich == InitEnrichRun /\ [][NextEnrich]_vars

\* One call of get_investigation_projects on any content of the table.
InitProjectsRun ==
    ScrapeIdle /\ fetch_yesterday = FALSE /\ ValidateIdle /\ LogIdle /\ FilterIdle
        /\ SessionIdle /\ RunIdle /\ NotifyIdle /\ EnrichIdle /\ InitProjects
        /\ ReplayIdle /\ ArtifactIdle

SpecProjects == InitProjectsRun /\ [][NextProjects]_vars

\* The calls of create_investigation_from_scrape of successive runs.
NextDaily ==
    \/ DbStart
    \/ DbFind
    \/ DbUpsert
    \/ DbAgain

InitDailyRun ==
    ScrapeIdle /\ fetch_yesterday = FALSE /\ ValidateIdle /\ LogIdle /\ FilterIdle
        /\ SessionIdle /\ RunIdle /\ InitDaily /\ MoreIdle

SpecDaily == InitDailyRun /\ [][NextDaily]_vars

(***************************************************************************)
(* Claims about the scraper, checked under SpecScrape.                     *)
(***************************************************************************)
\* The wait_for_function poll of the last wait_for_table_change ran out.
PollExpired == wres = "timeout" /\ polls = MaxPolls

\* C1: whenever the report page loaded and no table row ever became visible,
\* scrape_inf_data returns the empty list and not None, with and without the
\* "Yesterday" filter.  (Runs in which the engine raised something other
\* than the expiry of a wait for the table are left out.)
C1_EmptyTableGivesEmptyList ==
    (pc = "done" /\ loaded /\ ~rowSeen /\ (err = "none" \/ (err = "timeout" /\ PollExpired)))
        => result = ItemList(<<>>)

\* The items of the rows of tbl whose index is not in bad, in row order.
RECURSIVE KeptItems(_, _, _)
KeptItems(tbl, bad, k) ==
    IF k > Len(tbl) THEN <<>>
    ELSE (IF k \in bad THEN <<>> ELSE <<ItemOf(tbl[k])>>) \o KeptItems(tbl, bad, k + 1)

\* C2: when the extraction loop has run over a table of n rows of which the
\* rows in F threw, the returned list is exactly the n - |F| items of the
\* other rows, in row order.
C2_RowFaultIsolation ==
    (pc = "done" /\ idx > 0 /\ result.kind = "list")
        => /\ result.items = KeptItems(table, thrown, 1)
           /\ Len(result.items) = Len(table) - Cardinality(thrown)

\* A table of at least three rows whose second row threw and whose first and
\* third did not.
C2_Witness ==
    /\ pc = "done" /\ idx > 0 /\ result.kind = "list"
    /\ Len(table) >= 3
    /\ 2 \in thrown /\ 1 \notin thrown /\ 3 \notin thrown

\* The first row's text with surrounding white space removed, empty without a row.
FirstRowTrimmed(tbl) == IF tbl = <<>> THEN <<>> ELSE Trim(TextContent(tbl[1]))

\* The poll step of wait_for_table_change ends the call.
PollEndsWait == wpc = "poll" /\ wpc' # "poll"

\* C3 (as amended): wait_for_table_change returns normally only when the
\* first row's text, compared after trimming white space, differs from the
\* snapshot, or when no first row is left and the snapshot was not empty;
\* a wait that ends otherwise ends with the timeout error only after the
\* last poll found neither, or with another error.
C3_WaitReturnsOnlyAfterChange ==
    [][PollEndsWait =>
          /\ wres' = "ok" =>
                \/ table # <<>> /\ FirstRowTrimmed(table) # Trim(text0)
                \/ table = <<>> /\ text0 # <<>>
          /\ wres' = "timeout" =>
                /\ polls = MaxPolls
                /\ ~(table # <<>> /\ FirstRowTrimmed(table) # Trim(text0))
                /\ ~(table = <<>> /\ text0 # <<>>)
          /\ wres' \in {"ok", "timeout", "error"}]_vars

\* The sort's wait returned normally after a poll had found the table unchanged.
C3_Witness ==
    /\ wpc = "idle" /\ caller = "sort" /\ wres = "ok"
    /\ polls > 0
    /\ table # <<>>

\* C3 (as stated): wait_for_table_change returns normally only when the first
\* row's text differs from the snapshot or a row exists where none existed.
C3_ReturnsOnlyWithChangedOrNewRow ==
    [][(PollEndsWait /\ wres' = "ok") =>
          /\ table # <<>>
          /\ (TextContent(table[1]) # text0 \/ ~had)]_vars

\* C10: the browsing context that scrape_inf_data opened is closed when the
\* function returns or raises.
C10_ContextClosedOnReturn == pc = "done" => ctx # "open"

\* The wait_for_table_change of step c ends in this step.
WaitOf(c) == pc = "wait" /\ caller = c /\ pc' # "wait"

\* C27: when the wait_for_table_change of the page-size step ends with a
\* timeout, scrape_inf_data goes on with the sort step as it does after a
\* wait that ended well: nothing is returned, no error is recorded and the
\* context stays open.
C27_PageSizeTimeoutGoesOn ==
    [][(WaitOf("pagesize") /\ wres' \in {"ok", "timeout"}) =>
          /\ pc' = "sort"
          /\ ret' = Pending /\ err' = "none" /\ ctx' = "open"
          /\ UNCHANGED <<table, items, idx, thrown, result>>]_vars

\* The table did not change within the wait of the page-size step, and the
\* scrape stands before the sort.
C27_Witness ==
    /\ pc = "sort" /\ caller = "pagesize"
    /\ PollExpired
    /\ table # <<>> /\ ret = Pending

\* C28: when the wait_for_table_change of the sort step ends otherwise than
\* well, its click failed or the first row did not change in time, no row is
\* read and scrape_inf_data returns None.
C28_SortFailureFailsAttempt ==
    (caller = "sort" /\ wpc = "idle" /\ wres \in {"timeout", "error"}) =>
        /\ pc \in {"finally", "done"}
        /\ ret = Failure /\ err = wres
        /\ idx = 0 /\ items = <<>>
        /\ pc = "done" => result = Failure

\* The first row still had its text when the wait of the sort step expired:
\* None was returned.
C28_Witness ==
    /\ pc = "done" /\ caller = "sort"
    /\ PollExpired
    /\ table # <<>> /\ Trim(TextContent(table[1])) = Trim(text0)
    /\ result = Failure

(***************************************************************************)
(* Claims about the session validator, checked under SpecValidate.         *)
(***************************************************************************)
\* C4: check_if_login_needed always returns a value, and returns False
\* (still valid) exactly when the navigation completed, no part of the URL
\* is a sign-in pattern and the marker became visible; every other case,
\* any exception included, returns True.
C4_ValidationFailClosed ==
    vpc = "done" =>
        /\ login_needed \in {"True", "False"}
        /\ login_needed = "False" <=>
              /\ vnav = "ok"
              /\ \A k \in DOMAIN vurl : LowerPart(vurl[k]) # "signin" /\ vurl[k] # "/ap/"
              /\ vmarker = "ok"

\* The wait for the marker threw on a page that was no sign-in redirect.
C4_Witness ==
    /\ vpc = "done"
    /\ vnav = "ok" /\ ~SignInRedirect(vurl) /\ vmarker = "error"
    /\ login_needed = "True"

(***************************************************************************)
(* Claims about the duplicate filter, checked under SpecFilter.            *)
(***************************************************************************)
\* The values of the lines of the run log.
LogValues ==
    LET ls == SplitLines(logFile.data) IN {ParseLine(ls[k]) : k \in DOMAIN ls}

\* The entries of the run log whose time stamp falls on the current local date.
TodayEntries ==
    {v \in LogValues : v.kind = "entry" /\ v.ts.fmt = "ok" /\ v.ts.day = clock.day}

\* The SKUs of the items of those entries.
LoggedToday == UNION {{v.items[k].sku : k \in DOMAIN v.items} : v \in TodayEntries}

\* The filter opened the file and has returned.
FilterReadLog == fpc = "done" /\ fline >= 1

\* C5: when the run log holds entries of today, the filter
\* returns exactly the candidates whose SKU is in none of them, in order.
\* (Runs in which the file could not be opened are left out.)
C5_ReturnsExactlyUnloggedSkus ==
    (FilterReadLog /\ TodayEntries # {})
        => filtered.items = SelectSeq(fitems, LAMBDA it : it.sku \notin LoggedToday)

\* C6: a candidate is missing from the result only if its SKU is in an
\* entry of today; a log of entries of other dates only returns the batch
\* unchanged.
C6_OtherDatesNeverSuppress ==
    fpc = "done" =>
        /\ \A k \in DOMAIN fitems :
              fitems[k].sku \notin LoggedToday
                  => \E j \in DOMAIN filtered.items : filtered.items[j] = fitems[k]
        /\ (\A v \in LogValues : v.kind = "entry" /\ v.ts.fmt = "ok" /\ v.ts.day # clock.day)
              => filtered.items = fitems

\* The log is one entry of yesterday with SKU A, and candidate A is returned.
C6_Witness ==
    /\ FilterReadLog
    /\ logFile.data = <<StoredPiece(EntryLine(Stamp(1, "23:59:59"), <<ItemOf(RowA)>>))>>
    /\ fitems = <<ItemOf(RowA), ItemOf(RowB)>>
    /\ filtered.items = fitems

\* C23: whatever the run log holds, the filter ends by returning a list, and
\* a line that is blank, not an entry or without a readable time stamp is
\* passed over alone: once the file was opened, no returned candidate has a
\* SKU that a well-formed entry of today holds, wherever that entry stands.
C23_MalformedLinesSkippedIndividually ==
    /\ filtered.kind \in {"pending", "list"}
    /\ FilterReadLog =>
          \A k \in DOMAIN filtered.items :
              filtered.items[k].sku = "" \/ filtered.items[k].sku \notin LoggedToday

\* C7: without a run-log file the filter returns the batch unchanged, and no
\* step of it creates the file.
C7_NoFileReturnsBatch ==
    [][~logFile.exists =>
          /\ ~logFile'.exists
          /\ (fpc # "done" /\ fpc' = "done")
                => (filtered'.kind = "list" /\ filtered'.items = fitems)]_vars

\* FileNotFoundError ended the filter with the two candidates returned.
C7_Witness ==
    /\ fpc = "done" /\ ferr = "notfound"
    /\ ~logFile.exists
    /\ Len(fitems) = 2
    /\ filtered.items = fitems

(***************************************************************************)
(* Claims about log_inf_results, checked under SpecLog and SpecLogAnyDir.  *)
(***************************************************************************)
AllLogged == \A c \in Calls : lpc[c] = "done"

LogLines == SplitLines(logFile.data)

\* C8: after log_inf_results the log file exists, also when its directory did
\* not exist before, and a line of it parses to the entry with the given
\* items.
C8_AppendCreatesMissingDirectory ==
    AllLogged =>
        /\ logFile.exists
        /\ \A c \in Calls :
              \E k \in DOMAIN LogLines :
                  /\ ParseLine(LogLines[k]).kind = "entry"
                  /\ ParseLine(LogLines[k]).items = ldata[c]

\* The lines of the file that hold something a call wrote.
WrittenLines == {k \in DOMAIN LogLines : \E j \in DOMAIN LogLines[k] : LogLines[k][j].w # 0}

\* C9: no line of the run log ever holds parts of two entries, and when the
\* N concurrent calls have returned the log has gained exactly N lines, one
\* per call, each the complete entry of that call.
C9_LogAppendDurability ==
    /\ \A k \in DOMAIN LogLines :
          \A i, j \in DOMAIN LogLines[k] : LogLines[k][i].w = LogLines[k][j].w
    /\ AllLogged =>
          /\ Cardinality(WrittenLines) = MaxCalls
          /\ \A c \in Calls :
                \E k \in WrittenLines :
                    /\ LogLines[k] = <<HeadPiece(c, Entry(c)), TailPiece(c, Entry(c))>>
                    /\ ParseLine(LogLines[k]) = EntryLine(FormatStamp(clock), ldata[c])
                    /\ \A m \in WrittenLines : LogLines[m][1].w = c => m = k

\* All calls have returned, and the last call's line precedes the first's.
C9_Witness ==
    /\ AllLogged
    /\ Cardinality(WrittenLines) = MaxCalls
    /\ \E k, m \in WrittenLines :
          k < m /\ LogLines[k][1].w = MaxCalls /\ LogLines[m][1].w = 1

(***************************************************************************)
(* Claims about the session store and the login, checked under SpecSession.*)
(***************************************************************************)
\* STORAGE_STATE holds the complete text of a session with a list of cookies.
HoldsSession(f, id) == f = StateOf(Blob(SessionValue("list", id)))

\* C12: a save of the new session that is interrupted leaves a loadable
\* session in STORAGE_STATE, the complete previous one or the complete new
\* one; no reachable state has a partially written file.
C12_SaveKeepsLoadableSession ==
    HoldsSession(stateFile0, 1) => (HoldsSession(stateFile, 1) \/ HoldsSession(stateFile, 2))

\* prime_master_session has ended.
PrimeEnded == spc \in {"done", "end"}

\* C13: STORAGE_STATE changes only after perform_login has returned True;
\* when perform_login returns False, prime_master_session returns False and
\* the file is as it was; when the login succeeded and prime_master_session
\* reports it (returns True), the file holds the new session.
C13_SessionOverwrittenOnlyAfterLogin ==
    /\ stateFile # stateFile0 => lret = "True"
    /\ PrimeEnded =>
          /\ lret = "False" => (pret = "False" /\ stateFile = stateFile0)
          /\ pret = "False" => lret = "False"
          /\ (lret = "True" /\ pret # "raised") => pret = "True"
          /\ pret = "True" => (lret = "True" /\ HoldsSession(stateFile, 2))

\* A login succeeded over a stored earlier session, which the new one replaced.
C13_Witness ==
    /\ spc = "done"
    /\ lret = "True" /\ pret = "True"
    /\ HoldsSession(stateFile0, 1)
    /\ HoldsSession(stateFile, 2)

\* C14: ensure_storage_state is truthy exactly when STORAGE_STATE exists, is
\* not empty, parses to an object and holds a non-empty collection of
\* cookies; it never raises.
C14_TruthyIffNonEmptyCookieCollection ==
    spc \in {"new_context", "end"} =>
        /\ has_state \in CookieKinds \cup {"False"}
        /\ IsTruthy(has_state) <=> \E id \in {1, 2} : HoldsSession(stateFile, id)

\* C20: when the account picker is visible after the sign-in, perform_login
\* never fills or clicks anything of the picker; it returns True only if the
\* navigation to the report and the wait for the report's marker both
\* succeeded, and returns False as soon as one of them failed.
C20_AccountPickerBypass ==
    picker =>
        /\ "picker" \notin touched
        /\ touched \subseteq {"cont_input", "cont_btn", "email", "password", "otp"}
        /\ bypass.nav # "none"
        /\ lret = "True" =>
              (bypass = [nav |-> "ok", marker |-> "ok"] /\ dash_sel = "#range-selector")
        /\ (bypass.nav \in {"timeout", "error"} \/ bypass.marker \in {"timeout", "error"})
              => (lret = "False" /\ shot = "login_account_picker")

\* The picker came up after the passcode and the bypass led to a login.
C20_Witness ==
    /\ picker /\ "otp" \in touched
    /\ bypass = [nav |-> "ok", marker |-> "ok"]
    /\ lret = "True"

\* C21: perform_login returns True only in the step that saw dash_sel visible
\* within its wait, dash_sel being the report's date-range control after a
\* bypass of the picker and the dashboard's content otherwise; no step of a
\* login that returns True has failed.
C21_SuccessOnlyAfterDashboardSeen ==
    [][lret' = "True" =>
          /\ dash_seen' = "ok"
          /\ dash_sel' = IF picker' THEN "#range-selector" ELSE "#content"
          /\ lstage' = "none" /\ shot' = "none"
          /\ lret # "True" => (spc = "l_dash" /\ dash_seen = "none")]_vars

\* A login through the passcode and the picker that ended with True.
C21_Witness ==
    /\ lret = "True" /\ dash_seen = "ok"
    /\ picker /\ otps = 1
    /\ dash_sel = "#range-selector"

\* The steps of perform_login that can fail.
LoginStages == {"goto", "entry", "email", "password", "race", "otp", "bypass", "dash"}

\* C22: no exception leaves perform_login; when a step fails, whether its
\* wait expired or it threw, save_screenshot is called and perform_login
\* returns False, also when taking the screenshot failed.
C22_LoginNeverRaises ==
    /\ lret \in {"pending", "True", "False"}
    /\ lstage \in LoginStages \cup {"none"}
    /\ lstage # "none" =>
          (lret = "False" /\ shot # "none" /\ shotres \in ShotOutcomes)
    /\ dash_seen \in {"timeout", "error"} => lstage = "dash"
    /\ (spc \in {"after_login", "confirm", "save", "finally", "done"} /\ lret # "pending")
          => (lret = "False" <=> lstage # "none")

\* The wait after the passcode expired and the screenshot could not be
\* taken: perform_login returned False.
C22_Witness ==
    /\ lstage = "otp" /\ otps = 1
    /\ shot = "login_failure" /\ shotres = "error"
    /\ lret = "False"

\* C29: in one login the passcode is submitted at most once, and only at the
\* test of the passcode field after the password, when that field is the one
\* shown; when the field is still shown after the submission, perform_login
\* returns False.
C29_PasscodeSubmittedAtMostOnce ==
    [][/\ otps' # otps =>
             (otps = 0 /\ otps' = 1 /\ spc = "l_otp" /\ screen = "otp")
       /\ (otps' = 1 /\ screen' = "otp") =>
             (lret' = "False" /\ lstage' = "otp" /\ spc' # "l_otp")]_vars

\* The passcode was submitted once, its field stayed, the login failed.
C29_Witness ==
    /\ otps = 1 /\ screen = "otp"
    /\ lret = "False" /\ lstage = "otp"

(***************************************************************************)
(* Claims about a run of main, checked under SpecRun.                      *)
(***************************************************************************)
\* The configured numbers of attempts (src/settings.py).
LOGIN_RETRIES == 3
SCRAPE_RETRIES == 3

\* C11: the context opened to verify the stored session is open only during
\* the verification, whichever way that ends (valid, login needed, or an
\* exception of the browser engine at any of its steps), and STORAGE_STATE is
\* the same before and after the verification.
C11_ValidationClosesContextKeepsSession ==
    /\ rpc \notin {"v_page", "v_check", "v_close"} => vctx # "open"
    /\ rpc \in {"v_context", "v_page", "v_check", "v_close", "login"}
          => stateFile = stateFile0

\* C15: a run attempts the login at most LOGIN_RETRIES times and the scrape
\* at most SCRAPE_RETRIES times, and a run that ends after a failed attempt
\* has made all the configured attempts.
C15_FailedAttemptsAreRetried ==
    /\ logins <= LOGIN_RETRIES
    /\ scrapes <= SCRAPE_RETRIES
    /\ (rret = "returned" /\ primed = "False") => logins = LOGIN_RETRIES
    /\ (rret = "returned" /\ data = Failure) => scrapes = SCRAPE_RETRIES

\* C16: once a scrape attempt has returned the empty list no further attempt
\* is made in the run, and the run ends with the confirmed-empty outcome
\* (reported as information), not with the failure outcome.
C16_ConfirmedEmptyEndsScraping ==
    [][/\ data = ItemList(<<>>) => (scrapes' = scrapes /\ data' = data)
       /\ (data' = ItemList(<<>>) /\ rpc' \in {"calls", "done"})
             => (report' = "info" /\ rret' # "raised")
       /\ (data = ItemList(<<>>) /\ rpc' = "done")
             => (rret' = "returned" /\ scrapes' = 1)]_vars

\* The run has returned after its scrape gave the empty list.
C16_Witness ==
    /\ rret = "returned"
    /\ data = ItemList(<<>>)
    /\ scrapes = 1
    /\ report = "info"

\* C17: log_inf_results and post_inf_to_chat are called only for a non-empty
\* list of items; for the empty list and for None neither is called, the
\* first is reported as information and the second as an error, and the run
\* ends by closing the browser.
C17_DownstreamOnlyForItems ==
    /\ (calls # <<>> \/ todo # <<>>) => (data.kind = "list" /\ data.items # <<>>)
    /\ (rpc = "done" /\ scrapes > 0 /\ data \in {Failure, ItemList(<<>>)}) =>
          /\ calls = <<>>
          /\ report = IF data = Failure THEN "error" ELSE "info"
          /\ rret = "returned"
          /\ browser = "closed"
    /\ (rpc = "done" /\ data.kind = "list" /\ data.items # <<>>) =>
          /\ calls = <<"log_inf_results", "post_inf_to_chat">>
          /\ browser = "closed"

\* The run has returned after its scrape gave None.
C17_Witness ==
    /\ rret = "returned"
    /\ data = Failure
    /\ report = "error"
    /\ calls = <<>>
    /\ browser = "closed"

\* C18: when the login is required and prime_master_session returns False,
\* the run returns at once: no scrape, no collaborator call, browser closed.
C18_FailedLoginAbortsRun ==
    primed = "False" =>
        /\ login_required
        /\ rpc = "done" /\ rret = "returned"
        /\ browser = "closed"
        /\ scrapes = 0 /\ data = Pending
        /\ calls = <<>> /\ todo = <<>>

\* The stored session was found invalid and the login failed.
C18_Witness ==
    /\ primed = "False"
    /\ IsTruthy(has_state) /\ vctx = "closed"
    /\ rret = "returned" /\ browser = "closed"

\* The attempts the configuration allows for an operation.
Budget(op) == IF op = "login" THEN LOGIN_RETRIES ELSE SCRAPE_RETRIES

\* C25: of the attempts of a login or of a scrape, only the one that uses up
\* the configured number of attempts takes a diagnostic screenshot.
C25_ScreenshotOnlyOnExhaustingAttempt ==
    \A k \in DOMAIN shots : shots[k].attempt = Budget(shots[k].op)

C24_EnrichmentAdditiveInOrder ==
    epc = "done" =>
        /\ Len(enriched) = Len(eitems)
        /\ \A i \in DOMAIN eitems :
              /\ \A f \in ExtractionFields : Get(enriched[i], f) = Get(eitems[i], f)
              /\ ekeys =>
                    /\ enriched[i] \ eitems[i] = eresults[i].data
                    /\ LookupFailed(eresults[i].run) => enriched[i] = eitems[i]

\* The lookup of the second item ended first and failed, that of the first
\* item found stock and locations.
C24_Witness ==
    /\ epc = "done" /\ ekeys
    /\ eorder = <<2, 1>>
    /\ Get(eitems[1], "sku") # Get(eitems[2], "sku")
    /\ LookupFailed(eresults[2].run) /\ enriched[2] = eitems[2]
    /\ Keys(enriched[1]) = ExtractionFields \cup StockFields \cup LocationFields

(***************************************************************************)
(* Claims about the project query, checked under SpecProjects.             *)
(***************************************************************************)
\* C26: a call that returned has, with a client, executed one query whose
\* filters are the given investigation_id and, exactly when an organization
\* (a non-empty one) was given, that organization, and returns the rows
\* they let through; without a client it returns [] and executes nothing.
C26_ProjectsFilteredByInvestigationAndOrg ==
    (qpc = "done" /\ qret.kind = "list") =>
        IF qclient
        THEN /\ executed = 1
             /\ query[1] = EqId(qid)
             /\ OrgGiven(qorg) => query = <<EqId(qid), EqOrg(qorg.name)>>
             /\ ~OrgGiven(qorg) => query = <<EqId(qid)>>
             /\ qret.rows = {row \in projects :
                               /\ row.investigation_id = qid
                               /\ OrgGiven(qorg) => row.organization = qorg.name}
        ELSE qret.rows = {} /\ executed = 0 /\ query = <<>>

\* The table holds projects of two organizations for investigation 1 and
\* the call for OrgX returned the one of OrgX.
C26_Witness ==
    /\ qpc = "done" /\ qclient
    /\ qid = 1 /\ qorg = Org("OrgX")
    /\ projects = ProjectRows
    /\ qret = [kind |-> "list", rows |-> {ProjectRow(1, 1, "OrgX")}]

RECURSIVE Flatten(_)
Flatten(lists) ==
    IF lists = <<>> THEN <<>> ELSE Head(lists) \o Flatten(Tail(lists))

Occurrences(x, lst) == Cardinality({k \in DOMAIN lst : lst[k] = x})

\* The items of the payloads posted so far, in the order they were posted.
PayloadItems == Flatten([k \in DOMAIN sent |-> sent[k].items])

\* C31: in batched mode no payload holds more than BATCH_SIZE items and no
\* item is put in more payloads than it occurs in the input; when the call
\* returns, every input item is in exactly one payload. With the stock
\* lookup the three categories are pairwise disjoint and cover the items.
C31_BatchedPartition ==
    (webhook /\ ~single_card) =>
        /\ \A k \in DOMAIN sent : Len(sent[k].items) \in 1..BatchSize
        /\ \A x \in ChatItems : Occurrences(x, PayloadItems) <= Occurrences(x, citems)
        /\ (cpc = "done" /\ cret = "returned") =>
              \A x \in ChatItems : Occurrences(x, PayloadItems) = Occurrences(x, citems)
        /\ stock_lookup =>
              LET cats == Categories(SortByAisle(citems), TRUE) IN
              /\ \A x \in ChatItems :
                    Occurrences(x, cats[1]) + Occurrences(x, cats[2])
                        + Occurrences(x, cats[3]) = Occurrences(x, citems)
              /\ \A i, j \in 1..3 : \A x \in ChatItems :
                    (i # j /\ InList(x, cats[i])) => ~InList(x, cats[j])

\* An item without stock that also has a promotional location and an item
\* with a promotional location only went out in one payload each.
C31_Witness ==
    /\ cpc = "done" /\ cret = "returned"
    /\ webhook /\ ~single_card /\ stock_lookup
    /\ citems = <<ChatItem("B", TRUE, 0, "zero", TRUE), ChatItem("C", TRUE, 2, "some", TRUE)>>
    /\ Len(sent) = 2
    /\ sent[1].items = <<ChatItem("B", TRUE, 0, "zero", TRUE)>>
    /\ sent[2].items = <<ChatItem("C", TRUE, 2, "some", TRUE)>>

(***************************************************************************)
(* Claims about the confirmation visit of prime_master_session, checked    *)
(* under SpecSession.                                                      *)
(***************************************************************************)
\* The steps of ctx.storage_state(path=STORAGE_STATE) and the return after it.
Saving == spc \in {"save", "save_head", "save_tail", "return"}

\* The visit of INVENTORY_URL has ended, with or without an exception.
ConfirmEnded == confirm_nav \in Outcomes

C32_State ==
    /\ ConfirmEnded => lret = "True"
    /\ (Saving \/ stateFile # stateFile0) => ConfirmEnded
    /\ (lret = "True" /\ PrimeEnded) =>
          /\ ConfirmEnded
          /\ pret \in {"True", "raised"}
          /\ pret = "True" => HoldsSession(stateFile, 2)

\* C32: after a login that succeeded, prime_master_session goes from the
\* visit of INVENTORY_URL to the save whatever way the visit ended; the file
\* is written only after the visit has ended, and when the call returns it
\* returns True with the new session in the file (it returns False never,
\* and ends otherwise only with an exception of the save itself).
C32_SavedAfterConfirmation ==
    [][/\ C32_State'
       /\ spc = "confirm" =>
             (spc' = "save" /\ ConfirmEnded' /\ pret' = pret /\ stateFile' = stateFile)
       /\ (lret = "True" /\ pret = "pending" /\ pret' = "raised") => Saving]_vars

\* The visit of INVENTORY_URL timed out after a login that succeeded; the
\* new session was written and the call returned True.
C32_Witness ==
    /\ spc = "done"
    /\ lret = "True"
    /\ confirm_nav = "timeout"
    /\ pret = "True"
    /\ HoldsSession(stateFile, 2)

(***************************************************************************)
(* Claims about the contexts of a run, checked under SpecRun.              *)
(***************************************************************************)
\* The contexts of the run that are open: the one of the validation, the
\* one of the login and the one of the scrape.
OpenContexts ==
    {c \in {"validate", "login", "scrape"} :
        (IF c = "validate" THEN vctx ELSE octx[c]) = "open"}

\* C33: at every point of a run at most one context is open, and none is
\* open when the run has ended, however it ended.
C33_OneContextNoneAtEnd ==
    /\ Cardinality(OpenContexts) <= 1
    /\ rpc = "done" => OpenContexts = {}

(***************************************************************************)
(* log_inf_results followed by filter_items_posted_today on the same day:  *)
(* the calls of log_inf_results append to a run log that is missing or     *)
(* holds one earlier line, and the filter is called when they have         *)
(* returned.                                                               *)
(***************************************************************************)
RoundTripFiles == {NoFile} \cup {FileOf(<<StoredPiece(v)>>) : v \in StoredLines}

InitRoundTrip ==
    /\ logDir = TRUE
    /\ logFile \in RoundTripFiles
    /\ log_lock = Free
    /\ clock = [day |-> 2, hms |-> "12:00:00"]
    /\ lpc = [c \in Calls |-> "lock"]
    /\ ldata \in [Calls -> LogBatches]
    /\ InitFilter

\* filter_items_posted_today(Y), called after the calls of log_inf_results.
FilterAfterLog == AllLogged /\ FilterStart

NextRoundTrip ==
    \/ \E c \in Calls :
        \/ LogAcquire(c)
        \/ LogOpen(c)
        \/ LogWriteHead(c)
        \/ LogWriteTail(c)
        \/ LogRelease(c)
    \/ FilterAfterLog
    \/ FilterAcquire
    \/ FilterOpen
    \/ FilterReadLine
    \/ FilterReturn

InitRoundTripRun ==
    ScrapeIdle /\ fetch_yesterday = FALSE /\ ValidateIdle /\ InitRoundTrip
        /\ SessionIdle /\ RunIdle /\ NotifyIdle /\ MoreIdle

SpecRoundTrip == InitRoundTripRun /\ [][NextRoundTrip]_vars

(***************************************************************************)
(* Claims about logging and then filtering, checked under SpecRoundTrip.   *)
(***************************************************************************)
\* The SKUs of the items the calls of log_inf_results were given.
SkusLogged == UNION {{ldata[c][k].sku : k \in DOMAIN ldata[c]} : c \in Calls}

\* The lines the run log held before the calls.
EarlierValues ==
    {ParseLine(LogLines[k]) : k \in {j \in DOMAIN LogLines : LogLines[j][1].w = 0}}

\* None of them is an entry of the current local date.
NoEarlierEntryOfToday ==
    \A v \in EarlierValues : ~(v.kind = "entry" /\ v.ts.fmt = "ok" /\ v.ts.day = clock.day)

\* C34: after log_inf_results(X) a call of filter_items_posted_today(Y) that
\* could open the run log returns exactly the items of Y whose SKU is not
\* the SKU of an item of X, in the order of Y (the run log holding no other
\* entry of that date).
C34_LogThenFilterRoundTrip ==
    (FilterReadLog /\ NoEarlierEntryOfToday)
        => filtered.items = SelectSeq(fitems, LAMBDA it : it.sku \notin SkusLogged)

(***************************************************************************)
(* Claims about filtering twice, checked under SpecFilterTwice.            *)
(***************************************************************************)
\* s holds elements of t in the order they have in t.
RECURSIVE IsSubsequence(_, _)
IsSubsequence(s, t) ==
    IF s = <<>> THEN TRUE
    ELSE IF t = <<>> THEN FALSE
    ELSE IF Head(s) = Head(t) THEN IsSubsequence(Tail(s), Tail(t))
    ELSE IsSubsequence(s, Tail(t))

\* aiofiles.open of a call failed with an error other than a missing file.
OpenFailed(e) == e.ferr = "error" /\ e.fline = 0

\* C35: the list a call of the filter returns holds items of its batch in
\* the order of the batch; no step of the filter changes the run log; and a
\* second call with the list the first one returned, on the same run log
\* (opened the second time as it could be opened the first time), returns
\* that list unchanged.
C35_SubsequenceReadOnlyIdempotent ==
    [][/\ logFile' = logFile
       /\ fpc' = "done" =>
             /\ filtered'.kind = "list"
             /\ IsSubsequence(filtered'.items, fitems')
             /\ (fround' = 2 /\ ~OpenFailed(ffirst')) => filtered'.items = fitems']_vars

\* The first call removed the item of today's entry from a batch of two,
\* and the second call returned the remaining item.
C35_Witness ==
    /\ fround = 2 /\ fpc = "done"
    /\ ffirst = [ferr |-> "none", fline |-> 2]
    /\ posted_skus = {"A"}
    /\ filtered = ItemList(<<ItemOf(RowB)>>)
    /\ fitems = <<ItemOf(RowB)>>

(***************************************************************************)
(* Claims about a run log that cannot be read, checked under SpecFilter.   *)
(***************************************************************************)
\* The run log is missing, or a line of it is JSON but no object.
LogUnreadable == ~logFile.exists \/ \E v \in LogValues : v.kind = "nonobject"

\* C36: when the run log is missing, cannot be opened, or holds a line whose
\* JSON value is no entry object, the filter returns the whole batch, in
\* its order, whatever today's entries of the log hold.
C36_DedupFailsOpen ==
    fpc = "done" =>
        /\ LogUnreadable => filtered = ItemList(fitems)
        /\ ferr # "none" => filtered = ItemList(fitems)
        /\ (LogUnreadable /\ fitems # <<>>) => ferr # "none"

\* The log holds an entry of today with SKU A and then a line that is no
\* object: the SKU was collected, the next line ended the reading, and both
\* candidates were returned.
C36_Witness ==
    /\ fpc = "done" /\ ferr = "error"
    /\ logFile.data = <<StoredPiece(EntryLine(Stamp(2, "00:00:00"), <<ItemOf(RowA)>>)),
                        StoredPiece(NonObjectLine)>>
    /\ posted_skus = {"A"}
    /\ fitems = <<ItemOf(RowA), ItemOf(RowB)>>
    /\ filtered = ItemList(fitems)

(***************************************************************************)
(* Claims about the reuse of the stored session, checked under SpecRun.    *)
(***************************************************************************)
\* ensure_storage_state has been called in this run.
StateChecked == has_state # "pending"

\* C37: a run whose stored session the validation found valid makes no
\* login, never changes STORAGE_STATE, and scrapes after loading that file;
\* a run without a usable stored session opens no validation context and
\* scrapes only after a login that succeeded.
C37_ValidSessionReusedElseLogin ==
    /\ ~login_required =>
          /\ IsTruthy(has_state) /\ vctx \in {"open", "closed"}
          /\ logins = 0 /\ primed = "none"
          /\ stateFile = stateFile0
          /\ scrapes > 0 => JsonLoad(stateFile0.data).ok
    /\ (StateChecked /\ ~IsTruthy(has_state)) =>
          /\ vctx = "none" /\ login_required
          /\ rpc \in {"storage", "scrape"} => logins = 1
          /\ scrapes > 0 =>
                (logins = 1 /\ primed = "True" /\ stateFile = StateOf(Blob(NewSession)))

\* A run with a valid stored session has scraped and returned without a
\* login.
C37_Witness ==
    /\ rret = "returned" /\ scrapes = 1
    /\ ~login_required /\ logins = 0
    /\ HoldsSession(stateFile, 1)
    /\ data \in {ItemList(l) : l \in ScrapedLists}

(***************************************************************************)
(* Claims about the log history of the artifact, checked under             *)
(* SpecArtifact.                                                           *)
(***************************************************************************)
\* A call of ensure_log_history_from_artifact has ended.
SomeCallEnded == \E c \in Calls : apc[c] = "done"

C38_State ==
    /\ Len(downloaded) <= 1
    /\ \A k \in DOMAIN downloaded : saw_log[downloaded[k]] = "empty"
    /\ SomeCallEnded => artifact_checked

\* C38: over all the calls of a process _download_log_history is called at
\* most once, only by a caller whose test found no local log or an empty
\* one, and never once a call has ended, whether that call skipped the
\* download, made it, or failed in it.
C38_DownloadAtMostOnce ==
    [][/\ C38_State'
       /\ SomeCallEnded => downloaded' = downloaded]_vars

\* Two callers found the log empty; the first one's download failed with an
\* exception and the second one returned without a download.
C38_Witness ==
    /\ MaxCalls >= 2
    /\ saw_log[1] = "empty" /\ saw_log[2] = "empty"
    /\ downloaded = <<1>>
    /\ aret[1] = "raised" /\ aret[2] = "returned"
    /\ apc[1] = "done" /\ apc[2] = "done"

\* C39: the entry a call of log_inf_results has appended stays in the run
\* log: once the call has returned the file holds the complete line of
\* that call, also while and after ensure_log_history_from_artifact runs.
C39_LoggedEntryNeverLost ==
    \A c \in Calls :
        lpc[c] = "done" =>
            \E k \in DOMAIN LogLines :
                LogLines[k] = <<HeadPiece(c, Entry(c)), TailPiece(c, Entry(c))>>

(***************************************************************************)
(* Claims about the end of a run, checked under SpecRunFair.               *)
(***************************************************************************)
\* C40: a run whose steps each complete, time out or raise comes to its
\* end, by returning or with an exception, having made no more than the
\* configured numbers of login attempts and of scrape attempts.
C40_RunTerminates ==
    <>(rpc = "done" /\ rret \in {"returned", "raised"}
          /\ logins <= LOGIN_RETRIES /\ scrapes <= SCRAPE_RETRIES)

\* A run has ended after a login that succeeded and a scrape that failed.
C40_Witness ==
    /\ rpc = "done" /\ rret = "returned"
    /\ logins = 1 /\ primed = "True"
    /\ scrapes = 1 /\ data = Failure
    /\ browser = "closed"

\* scrape_inf_data comes to its end: the poll of wait_for_table_change is
\* cut off by its timeout and the loop over the rows is finite.
ScrapeEnds == <>(pc = "done")

\* prime_master_session with its perform_login comes to its end.
SessionEnds == <>(spc = "end")

====
